---- MODULE Spec2Model ----
(***************************************************************************)
(* State-machine model of the sharkId front end's controllers:             *)
(*   - the validation queue screen (pages/ValidationQueue.tsx),            *)
(*   - the three-step annotation machine of the photo screen (PhotoDetail),*)
(*   - the video polling of the dive-session screen (DiveSessionDetail).   *)
(* Every React state cell is a variable; every event handler, promise      *)
(* continuation and button is an action.  A render is atomic: a handler    *)
(* reads the state of the render it was created in, and a continuation of  *)
(* an async handler reads the values its closure captured.                 *)
(***************************************************************************)
EXTENDS Integers, Sequences, FiniteSets, Bags, TLC

\* ------------------------------------------------------------------ bounds
\* Largest list the server returns for the validation queue.
MaxQueue == 3
\* Largest number of name-suggestion calls awaiting their response.
MaxSuggest == 1

\* ------------------------------------------------------------- vocabulary
Min(a, b) == IF a < b THEN a ELSE b
Max(a, b) == IF a > b THEN a ELSE b

\* null of a string-valued cell (Candidate | null, Shark | null)
Null == "null"
\* photo ids are 1..MaxQueue; 0 stands for "no photo" (queue[idx] ?? null)
NoPhoto == 0
\* Photo.url: urls are only tested for presence, so one token stands for
\* every url a photo has, and NoUrl for a missing one (falsy)
NoUrl == "null"
TheUrl == "url"

\* The server's ordered list of ready_for_validation photos.
ServerQueue(n) == [i \in 1..n |-> i]

\* The server's list of unlinked photos (getUnlinkedPhotos), by id.
ServerUnlinked == <<11, 12>>

\* Photo.top5_candidates (shark ids, best first); empty for "none found".
Top5(p) ==
  CASE p % 3 = 1 -> <<"s1", "s2">>
    [] p % 3 = 2 -> <<"s2">>
    [] OTHER     -> <<>>

\* Photo.url
Url(p) == IF p % 3 = 2 THEN NoUrl ELSE TheUrl

\* The identity catalog returned by getSharks (ids); its one identity is not
\* among the candidates of any photo.
Sharks == {"s3"}

\* Texts a user can have in the name field (sequences of characters), and
\* the names the naming collaborator suggests.
Names == {<<>>, <<" ">>, <<" ", "b">>}
SuggestedNames == {<<" ", "b">>}

Range(s) == {s[i] : i \in 1..Len(s)}

\* ------------------------------------------------------------------ state
VARIABLES
  tab, queue, idx, loading, error, submitting, lightboxUrl, selectedCandidate,
  showNewShark, newSharkName, setAsProfile, showPicker, pickedShark,
  inflight,    \* validate calls awaiting their response, with what the
               \* continuation's closure holds: the photo and idx of the render
  suggesting,  \* suggestSharkName calls awaiting their response
  \* the unlinked tab of the same screen
  unlinked, recheckingId, recheckingAll,
  rechecks,    \* recheckPhoto calls of handleRecheck awaiting their response
               \* (the photoId each continuation holds)
  recheckAlls, \* the Promise.allSettled of handleRecheckAll awaiting its
               \* results (the ids the call captured)
  ev,          \* the last event: its name, the request it sent, if any, the
               \* status of the response it handled, and its argument: for a
               \* drag move the pointer's position, for a drag end the
               \* rectangle the drag had reached
  \* the photo screen (PhotoDetail); its photo, loading, error and submitting
  \* cells carry the prefix pd
  canEdit, pdPhoto, pdLoading, pdError, step, sharkRect, zoneRect,
  orientation, dragStart, liveRect, pdSubmitting,
  pdInflight,  \* annotate calls awaiting their response (their payloads)
  \* the dive-session screen (DiveSessionDetail); its loading and error cells
  \* carry the prefix ds
  session, dsLoading, dsError, videos, videoUploading,
  timer,       \* the interval of the polling effect: empty when none is
               \* installed, else the videos its callback's closure holds
  polls,       \* getSessionVideos calls awaiting their response (a bag): the
               \* one of the mount effect and those of the timer, each with
               \* the videos its continuation's closure holds
  fetches,     \* getDiveSession calls awaiting their response (a bag), by
               \* origin
  deleting,    \* deleteVideo calls awaiting their response (the video ids)
  everDone     \* history: the ids of the videos the screen has held as done

vars == <<tab, queue, idx, loading, error, submitting, lightboxUrl,
          selectedCandidate, showNewShark, newSharkName, setAsProfile,
          showPicker, pickedShark, inflight, suggesting,
          unlinked, recheckingId, recheckingAll, rechecks, recheckAlls, ev,
          canEdit, pdPhoto, pdLoading, pdError, step, sharkRect, zoneRect,
          orientation, dragStart, liveRect, pdSubmitting, pdInflight,
          session, dsLoading, dsError, videos, videoUploading, timer, polls,
          fetches, deleting, everDone>>

\* the cells of the dive-session screen
vcells == <<session, dsLoading, dsError, videos, videoUploading, timer, polls,
            fetches, deleting, everDone>>

\* the cells of the photo screen
acells == <<canEdit, pdPhoto, pdLoading, pdError, step, sharkRect, zoneRect,
            orientation, dragStart, liveRect, pdSubmitting, pdInflight>>

\* the cells of the unlinked tab
ucells == <<unlinked, recheckingId, recheckingAll, rechecks, recheckAlls>>

\* the cells of the validation queue screen other than ev
qcells == <<tab, queue, idx, loading, error, submitting, lightboxUrl,
            selectedCandidate, showNewShark, newSharkName, setAsProfile,
            showPicker, pickedShark, inflight, suggesting,
            unlinked, recheckingId, recheckingAll, rechecks, recheckAlls>>

\* an event that sent no request and handled no response; the purely local
\* clicks (tabs, candidate list, lightbox, modal fields) are all named "ui"
Ev(op) == [op |-> op, req |-> <<>>, status |-> 0, arg |-> <<>>]

\* -------------------------------------------------------------- api.ts req
\* What the server can answer to a request: success, an expired session, or
\* an error whose JSON body carries a detail text.
Responses ==
  { [status |-> 200, detail |-> ""],
    [status |-> 401, detail |-> "Not authenticated"],
    [status |-> 400, detail |-> "Shark not found"] }

\* resp.ok
RespOk(r) == r.status >= 200 /\ r.status <= 299

\* mutant of ReqRejects: req without its !resp.ok check
ReqNeverRejects(r) == FALSE

\* req: a 401 resolves (with undefined) after redirecting to /login; any
\* other non-ok status rejects with an Error; an ok status resolves.
ReqRejects(r) == r.status # 401 /\ ~RespOk(r)

\* the message of the Error req throws: the detail of the JSON body
ReqMessage(r) == r.detail

\* ------------------------------------------------- ValidationQueue: derived
\* const photo = queue[idx] ?? null   (idx is 0-based)
photo == IF idx >= 0 /\ idx < Len(queue) THEN queue[idx + 1] ELSE NoPhoto
total == Len(queue)

\* prev.filter((_, i) => i !== k)
FilterIdx(s, k) ==
  IF k >= 0 /\ k < Len(s)
    THEN [i \in 1..(Len(s) - 1) |-> IF i - 1 < k THEN s[i] ELSE s[i + 1]]
    ELSE s

\* String.prototype.trim on a sequence of characters
RECURSIVE TrimStart(_)
TrimStart(s) == IF s # <<>> /\ Head(s) = " " THEN TrimStart(Tail(s)) ELSE s
RECURSIVE TrimEnd(_)
TrimEnd(s) ==
  IF s # <<>> /\ s[Len(s)] = " " THEN TrimEnd(SubSeq(s, 1, Len(s) - 1)) ELSE s
Trim(s) == TrimEnd(TrimStart(s))

\* what is on screen
QueueShown == ~loading /\ tab = "queue" /\ photo # NoPhoto

\* ------------------------------------------------------------- load effect
\* Promise.all(...).then: the three fetches resolved.
LoadOk(n) ==
  /\ loading
  /\ queue' = ServerQueue(n)
  /\ idx' = 0
  /\ loading' = FALSE
  /\ unlinked' = ServerUnlinked
  /\ ev' = Ev("LoadOk")
  /\ UNCHANGED <<tab, error, submitting, lightboxUrl, selectedCandidate,
                 showNewShark, newSharkName, setAsProfile, showPicker,
                 pickedShark, inflight, suggesting>>
  /\ UNCHANGED <<recheckingId, recheckingAll, rechecks, recheckAlls>>
  /\ UNCHANGED acells
  /\ UNCHANGED vcells

\* .catch: one of the fetches rejected.
LoadFail ==
  /\ loading
  /\ error' = "Failed to load queue"
  /\ loading' = FALSE
  /\ ev' = Ev("LoadFail")
  /\ UNCHANGED <<tab, queue, idx, submitting, lightboxUrl, selectedCandidate,
                 showNewShark, newSharkName, setAsProfile, showPicker,
                 pickedShark, inflight, suggesting>>
  /\ UNCHANGED acells
  /\ UNCHANGED vcells
  /\ UNCHANGED ucells

\* mutant of KeySuppressed: the new-identity modal is not looked at
KeySuppressedButNewShark == tab # "queue" \/ showPicker \/ lightboxUrl # NoUrl

\* -------------------------------------------------------------- navigation
\* the guard of handleKey: the key is ignored
KeySuppressed ==
  tab # "queue" \/ showNewShark \/ showPicker \/ lightboxUrl # NoUrl

\* setIdx(i => Math.max(i - 1, 0))
PrevIdx(i) == Max(i - 1, 0)
\* setIdx(i => Math.min(i + 1, total - 1))
NextIdx(i) == Min(i + 1, total - 1)

\* the window keydown listener, installed on mount
handleKey(k) ==
  /\ idx' = IF KeySuppressed THEN idx
            ELSE IF k = "ArrowLeft" THEN PrevIdx(idx) ELSE NextIdx(idx)
  /\ ev' = Ev(k)
  /\ UNCHANGED <<tab, queue, loading, error, submitting, lightboxUrl,
                 selectedCandidate, showNewShark, newSharkName, setAsProfile,
                 showPicker, pickedShark, inflight, suggesting>>
  /\ UNCHANGED acells
  /\ UNCHANGED vcells
  /\ UNCHANGED ucells

\* the Prev / Next buttons are rendered in the queue tab when total > 1
NavShown == ~loading /\ tab = "queue" /\ total > 1

ClickPrev ==
  /\ NavShown
  /\ idx # 0                     \* disabled={idx === 0}
  /\ idx' = PrevIdx(idx)
  /\ ev' = Ev("Prev")
  /\ UNCHANGED <<tab, queue, loading, error, submitting, lightboxUrl,
                 selectedCandidate, showNewShark, newSharkName, setAsProfile,
                 showPicker, pickedShark, inflight, suggesting>>
  /\ UNCHANGED acells
  /\ UNCHANGED vcells
  /\ UNCHANGED ucells

ClickNext ==
  /\ NavShown
  /\ idx # total - 1             \* disabled={idx === total - 1}
  /\ idx' = NextIdx(idx)
  /\ ev' = Ev("Next")
  /\ UNCHANGED <<tab, queue, loading, error, submitting, lightboxUrl,
                 selectedCandidate, showNewShark, newSharkName, setAsProfile,
                 showPicker, pickedShark, inflight, suggesting>>
  /\ UNCHANGED acells
  /\ UNCHANGED vcells
  /\ UNCHANGED ucells

SetTab(t) ==
  /\ ~loading
  /\ tab' = t
  /\ ev' = Ev("ui")
  /\ UNCHANGED <<queue, idx, loading, error, submitting, lightboxUrl,
                 selectedCandidate, showNewShark, newSharkName, setAsProfile,
                 showPicker, pickedShark, inflight, suggesting>>
  /\ UNCHANGED acells
  /\ UNCHANGED vcells
  /\ UNCHANGED ucells

\* --------------------------------------------- candidate list and lightbox
\* onClick={() => setSelectedCandidate(c)} on an entry of photo.top5_candidates
SelectCandidate(c) ==
  /\ QueueShown
  /\ c \in Range(Top5(photo))
  /\ selectedCandidate' = c
  /\ ev' = Ev("ui")
  /\ UNCHANGED <<tab, queue, idx, loading, error, submitting, lightboxUrl,
                 showNewShark, newSharkName, setAsProfile, showPicker,
                 pickedShark, inflight, suggesting>>
  /\ UNCHANGED acells
  /\ UNCHANGED vcells
  /\ UNCHANGED ucells

OpenLightbox ==
  /\ QueueShown
  /\ Url(photo) # NoUrl
  /\ lightboxUrl' = Url(photo)
  /\ ev' = Ev("ui")
  /\ UNCHANGED <<tab, queue, idx, loading, error, submitting,
                 selectedCandidate, showNewShark, newSharkName, setAsProfile,
                 showPicker, pickedShark, inflight, suggesting>>
  /\ UNCHANGED acells
  /\ UNCHANGED vcells
  /\ UNCHANGED ucells

CloseLightbox ==
  /\ ~loading
  /\ lightboxUrl # NoUrl
  /\ lightboxUrl' = NoUrl
  /\ ev' = Ev("ui")
  /\ UNCHANGED <<tab, queue, idx, loading, error, submitting,
                 selectedCandidate, showNewShark, newSharkName, setAsProfile,
                 showPicker, pickedShark, inflight, suggesting>>
  /\ UNCHANGED acells
  /\ UNCHANGED vcells
  /\ UNCHANGED ucells

\* ------------------------------------------------------------------ modals
\* Select Other Shark, disabled={submitting}
openPicker ==
  /\ QueueShown
  /\ ~submitting
  /\ pickedShark' = Null
  /\ showPicker' = TRUE
  /\ ev' = Ev("ui")
  /\ UNCHANGED <<tab, queue, idx, loading, error, submitting, lightboxUrl,
                 selectedCandidate, showNewShark, newSharkName, setAsProfile,
                 inflight, suggesting>>
  /\ UNCHANGED acells
  /\ UNCHANGED vcells
  /\ UNCHANGED ucells

PickShark(s) ==
  /\ ~loading /\ showPicker
  /\ s \in Sharks
  /\ pickedShark' = s
  /\ ev' = Ev("ui")
  /\ UNCHANGED <<tab, queue, idx, loading, error, submitting, lightboxUrl,
                 selectedCandidate, showNewShark, newSharkName, setAsProfile,
                 showPicker, inflight, suggesting>>
  /\ UNCHANGED acells
  /\ UNCHANGED vcells
  /\ UNCHANGED ucells

ClosePicker ==
  /\ ~loading /\ showPicker
  /\ showPicker' = FALSE
  /\ ev' = Ev("ui")
  /\ UNCHANGED <<tab, queue, idx, loading, error, submitting, lightboxUrl,
                 selectedCandidate, showNewShark, newSharkName, setAsProfile,
                 pickedShark, inflight, suggesting>>
  /\ UNCHANGED acells
  /\ UNCHANGED vcells
  /\ UNCHANGED ucells

\* Create New Shark, disabled={submitting}: openNewShark up to its await
openNewShark ==
  /\ QueueShown
  /\ ~submitting
  /\ suggesting < MaxSuggest
  /\ suggesting' = suggesting + 1
  /\ ev' = Ev("openNewShark")
  /\ UNCHANGED <<tab, queue, idx, loading, error, submitting, lightboxUrl,
                 selectedCandidate, showNewShark, newSharkName, setAsProfile,
                 showPicker, pickedShark, inflight>>
  /\ UNCHANGED acells
  /\ UNCHANGED vcells
  /\ UNCHANGED ucells

\* mutant of SuggestResp: a failed suggestion does not open the modal
SuggestRespFailBlocks(ok, name) ==
  /\ suggesting > 0
  /\ suggesting' = suggesting - 1
  /\ newSharkName' = IF ok THEN name ELSE <<>>
  /\ setAsProfile' = TRUE
  /\ showNewShark' = (ok \/ showNewShark)
  /\ ev' = Ev(IF ok THEN "SuggestOk" ELSE "SuggestFail")
  /\ UNCHANGED <<tab, queue, idx, loading, error, submitting, lightboxUrl,
                 selectedCandidate, showPicker, pickedShark, inflight>>
  /\ UNCHANGED acells
  /\ UNCHANGED vcells
  /\ UNCHANGED ucells

\* openNewShark after its await: the suggestion resolved with a name, or it
\* rejected (a 401 resolves with undefined, whose destructuring throws).
SuggestResp(ok, name) ==
  /\ suggesting > 0
  /\ suggesting' = suggesting - 1
  /\ newSharkName' = IF ok THEN name ELSE <<>>
  /\ setAsProfile' = TRUE
  /\ showNewShark' = TRUE
  /\ ev' = Ev(IF ok THEN "SuggestOk" ELSE "SuggestFail")
  /\ UNCHANGED <<tab, queue, idx, loading, error, submitting, lightboxUrl,
                 selectedCandidate, showPicker, pickedShark, inflight>>
  /\ UNCHANGED acells
  /\ UNCHANGED vcells
  /\ UNCHANGED ucells

EditName(n) ==
  /\ ~loading /\ showNewShark
  /\ newSharkName' = n
  /\ ev' = Ev("ui")
  /\ UNCHANGED <<tab, queue, idx, loading, error, submitting, lightboxUrl,
                 selectedCandidate, showNewShark, setAsProfile, showPicker,
                 pickedShark, inflight, suggesting>>
  /\ UNCHANGED acells
  /\ UNCHANGED vcells
  /\ UNCHANGED ucells

ToggleProfile ==
  /\ ~loading /\ showNewShark
  /\ setAsProfile' = ~setAsProfile
  /\ ev' = Ev("ui")
  /\ UNCHANGED <<tab, queue, idx, loading, error, submitting, lightboxUrl,
                 selectedCandidate, showNewShark, newSharkName, showPicker,
                 pickedShark, inflight, suggesting>>
  /\ UNCHANGED acells
  /\ UNCHANGED vcells
  /\ UNCHANGED ucells

CloseNewShark ==
  /\ ~loading /\ showNewShark
  /\ showNewShark' = FALSE
  /\ ev' = Ev("ui")
  /\ UNCHANGED <<tab, queue, idx, loading, error, submitting, lightboxUrl,
                 selectedCandidate, newSharkName, setAsProfile, showPicker,
                 pickedShark, inflight, suggesting>>
  /\ UNCHANGED acells
  /\ UNCHANGED vcells
  /\ UNCHANGED ucells

\* ------------------------------------------------------ resolution actions
\* mutant of submit: without its if (!photo) return
submitWithoutPhotoGuard(op, body) ==
  /\ submitting' = TRUE
  /\ inflight' = Append(inflight, [photo |-> photo, idx |-> idx])
  /\ ev' = [Ev(op) EXCEPT !.req = <<[id |-> photo, body |-> body]>>]

\* submit up to its await.  body is {action, ...extra}.
submit(op, body) ==
  IF photo = NoPhoto
    THEN /\ UNCHANGED <<submitting, inflight>>
         /\ ev' = Ev(op)
    ELSE /\ submitting' = TRUE
         /\ inflight' = Append(inflight, [photo |-> photo, idx |-> idx])
         /\ ev' = [Ev(op) EXCEPT !.req = <<[id |-> photo, body |-> body]>>]

\* a click that runs no handler (disabled button) or whose handler returns
\* at its guard
NoOp(op) == ev' = Ev(op) /\ UNCHANGED qcells

\* disabled={!selectedCandidate || submitting}
ConfirmDisabled == selectedCandidate = Null \/ submitting
\* disabled={!pickedShark || submitting}
SelectDisabled == pickedShark = Null \/ submitting
\* mutant of CreateDisabled: the modal's button ignores submitting
CreateDisabledNameOnly == Trim(newSharkName) = <<>>

\* disabled={!newSharkName.trim() || submitting}
CreateDisabled == Trim(newSharkName) = <<>> \/ submitting
\* disabled={submitting}
UnlinkDisabled == submitting

\* if (!selectedCandidate) return
ConfirmGuard == selectedCandidate # Null
\* if (!pickedShark) return
SelectGuard == pickedShark # Null
\* if (!newSharkName.trim()) return
CreateGuard == Trim(newSharkName) # <<>>

ConfirmBody ==
  [action |-> "confirm", shark_id |-> selectedCandidate,
   set_as_profile_photo |-> FALSE]
SelectBody == [action |-> "select", shark_id |-> pickedShark]
\* mutant of CreateBody: the name is sent as typed
CreateBodyUntrimmed ==
  [action |-> "create", shark_name |-> newSharkName,
   name_status |-> "temporary", set_as_profile_photo |-> setAsProfile]

CreateBody ==
  [action |-> "create", shark_name |-> Trim(newSharkName),
   name_status |-> "temporary", set_as_profile_photo |-> setAsProfile]
UnlinkBody == [action |-> "unlink"]

handleConfirm ==
  /\ QueueShown
  /\ IF ConfirmDisabled \/ ~ConfirmGuard
       THEN NoOp("Confirm")
       ELSE /\ submit("Confirm", ConfirmBody)
            /\ UNCHANGED <<tab, queue, idx, loading, error, lightboxUrl,
                           selectedCandidate, showNewShark, newSharkName,
                           setAsProfile, showPicker, pickedShark, suggesting>>
  /\ UNCHANGED acells
  /\ UNCHANGED vcells
  /\ UNCHANGED ucells

handleSelect ==
  /\ ~loading /\ showPicker
  /\ IF SelectDisabled \/ ~SelectGuard
       THEN NoOp("Select")
       ELSE /\ submit("Select", SelectBody)
            /\ showPicker' = FALSE
            /\ UNCHANGED <<tab, queue, idx, loading, error, lightboxUrl,
                           selectedCandidate, showNewShark, newSharkName,
                           setAsProfile, pickedShark, suggesting>>
  /\ UNCHANGED acells
  /\ UNCHANGED vcells
  /\ UNCHANGED ucells

handleCreate ==
  /\ ~loading /\ showNewShark
  /\ IF CreateDisabled \/ ~CreateGuard
       THEN NoOp("Create")
       ELSE /\ submit("Create", CreateBody)
            /\ showNewShark' = FALSE
            /\ UNCHANGED <<tab, queue, idx, loading, error, lightboxUrl,
                           selectedCandidate, newSharkName, setAsProfile,
                           showPicker, pickedShark, suggesting>>
  /\ UNCHANGED acells
  /\ UNCHANGED vcells
  /\ UNCHANGED ucells

handleUnlink ==
  /\ QueueShown
  /\ IF UnlinkDisabled
       THEN NoOp("Unlink")
       ELSE /\ submit("Unlink", UnlinkBody)
            /\ UNCHANGED <<tab, queue, idx, loading, error, lightboxUrl,
                           selectedCandidate, showNewShark, newSharkName,
                           setAsProfile, showPicker, pickedShark, suggesting>>
  /\ UNCHANGED acells
  /\ UNCHANGED vcells
  /\ UNCHANGED ucells

\* mutant of removeCurrentAndAdvance: the cursor is not clamped
removeCurrentNoClamp(k) ==
  /\ queue' = FilterIdx(queue, k)
  /\ idx' = idx
  /\ selectedCandidate' = Null

\* mutant of removeCurrentAndAdvance: the filter reads the cursor of the
\* latest render instead of the one its closure holds
removeAtLatestCursor(k) ==
  LET next == FilterIdx(queue, idx) IN
  /\ queue' = next
  /\ idx' = Min(idx, Max(Len(next) - 1, 0))
  /\ selectedCandidate' = Null

\* removeCurrentAndAdvance of the render whose idx was k
removeCurrentAndAdvance(k) ==
  LET next == FilterIdx(queue, k) IN
  /\ queue' = next
  /\ idx' = Min(idx, Max(Len(next) - 1, 0))
  /\ selectedCandidate' = Null

\* mutant of ValidateResp: setSubmitting(false) only after the try, not in a
\* finally
ValidateRespNoFinally(i, r) ==
  /\ i \in 1..Len(inflight)
  /\ inflight' = [j \in 1..(Len(inflight) - 1) |->
                    IF j < i THEN inflight[j] ELSE inflight[j + 1]]
  /\ IF ReqRejects(r)
       THEN /\ error' = ReqMessage(r)
            /\ UNCHANGED <<queue, idx, selectedCandidate, submitting>>
       ELSE /\ removeCurrentAndAdvance(inflight[i].idx)
            /\ submitting' = FALSE
            /\ UNCHANGED error
  /\ ev' = [Ev("ValidateResp") EXCEPT !.status = r.status]
  /\ UNCHANGED <<tab, loading, lightboxUrl, showNewShark, newSharkName,
                 setAsProfile, showPicker, pickedShark, suggesting>>
  /\ UNCHANGED acells
  /\ UNCHANGED vcells
  /\ UNCHANGED ucells

\* submit after its await: validatePhoto settled with response r
ValidateResp(i, r) ==
  /\ i \in 1..Len(inflight)
  /\ inflight' = [j \in 1..(Len(inflight) - 1) |->
                    IF j < i THEN inflight[j] ELSE inflight[j + 1]]
  /\ IF ReqRejects(r)
       THEN /\ error' = ReqMessage(r)
            /\ UNCHANGED <<queue, idx, selectedCandidate>>
       ELSE /\ removeCurrentAndAdvance(inflight[i].idx)
            /\ UNCHANGED error
  /\ submitting' = FALSE
  /\ ev' = [Ev("ValidateResp") EXCEPT !.status = r.status]
  /\ UNCHANGED <<tab, loading, lightboxUrl, showNewShark, newSharkName,
                 setAsProfile, showPicker, pickedShark, suggesting>>
  /\ UNCHANGED acells
  /\ UNCHANGED vcells
  /\ UNCHANGED ucells

\* ------------------------------------------------------------ unlinked tab
\* How many recheckPhoto calls of handleRecheck may await their response.
MaxRecheck == 2

\* prev.filter(p => !ids.includes(p.id))
Without(s, ids) == SelectSeq(s, LAMBDA p : p \notin ids)

\* the unlinked tab shows the list and its buttons
UnlinkedShown == ~loading /\ tab = "unlinked" /\ unlinked # <<>>

\* handleRecheck up to its await; the button of photo p is
\* disabled={recheckingId === p.id}
handleRecheck(photoId) ==
  /\ UnlinkedShown
  /\ photoId \in Range(unlinked)
  /\ recheckingId # photoId
  /\ Len(rechecks) < MaxRecheck
  /\ recheckingId' = photoId
  /\ rechecks' = Append(rechecks, photoId)
  /\ ev' = [Ev("Recheck") EXCEPT !.req = <<[id |-> photoId]>>]
  /\ UNCHANGED <<tab, queue, idx, loading, error, submitting, lightboxUrl,
                 selectedCandidate, showNewShark, newSharkName, setAsProfile,
                 showPicker, pickedShark, inflight, suggesting>>
  /\ UNCHANGED <<unlinked, recheckingAll, recheckAlls>>
  /\ UNCHANGED acells
  /\ UNCHANGED vcells

\* handleRecheck after its await: the try, catch and finally blocks
RecheckResp(i, r) ==
  /\ i \in 1..Len(rechecks)
  /\ rechecks' = [j \in 1..(Len(rechecks) - 1) |->
                    IF j < i THEN rechecks[j] ELSE rechecks[j + 1]]
  /\ IF ReqRejects(r)
       THEN /\ error' = ReqMessage(r)
            /\ UNCHANGED unlinked
       ELSE /\ unlinked' = Without(unlinked, {rechecks[i]})
            /\ UNCHANGED error
  /\ recheckingId' = NoPhoto
  /\ ev' = [Ev("RecheckResp") EXCEPT !.status = r.status]
  /\ UNCHANGED <<tab, queue, idx, loading, submitting, lightboxUrl,
                 selectedCandidate, showNewShark, newSharkName, setAsProfile,
                 showPicker, pickedShark, inflight, suggesting>>
  /\ UNCHANGED <<recheckingAll, recheckAlls>>
  /\ UNCHANGED acells
  /\ UNCHANGED vcells

\* handleRecheckAll up to its await; the button is disabled={recheckingAll}
handleRecheckAll ==
  /\ UnlinkedShown
  /\ ~recheckingAll
  /\ recheckingAll' = TRUE
  /\ error' = ""
  /\ recheckAlls' = Append(recheckAlls, unlinked)
  /\ ev' = [Ev("RecheckAll") EXCEPT !.req = <<[ids |-> unlinked]>>]
  /\ UNCHANGED <<tab, queue, idx, loading, submitting, lightboxUrl,
                 selectedCandidate, showNewShark, newSharkName, setAsProfile,
                 showPicker, pickedShark, inflight, suggesting>>
  /\ UNCHANGED <<unlinked, recheckingId, rechecks>>
  /\ UNCHANGED acells
  /\ UNCHANGED vcells

\* `${failed} photo${failed > 1 ? 's' : ''} could not be rechecked`
\* (ServerUnlinked holds two photos)
FailedMessage(failed) ==
  IF failed > 1 THEN "2 photos could not be rechecked"
  ELSE "1 photo could not be rechecked"

\* handleRecheckAll after Promise.allSettled: res[k] is the answer to the
\* recheck of the k-th captured id
RecheckAllResp(res) ==
  /\ recheckAlls # <<>>
  /\ LET ids       == Head(recheckAlls)
         succeeded == {ids[k] : k \in {j \in 1..Len(ids) : ~ReqRejects(res[j])}}
         failed    == Cardinality({k \in 1..Len(ids) : ReqRejects(res[k])})
     IN /\ DOMAIN res = 1..Len(ids)
        /\ unlinked' = Without(unlinked, succeeded)
        /\ error' = IF failed > 0 THEN FailedMessage(failed) ELSE error
        /\ ev' = [Ev("RecheckAllResp") EXCEPT !.arg = <<failed>>]
  /\ recheckAlls' = Tail(recheckAlls)
  /\ recheckingAll' = FALSE
  /\ UNCHANGED <<tab, queue, idx, loading, submitting, lightboxUrl,
                 selectedCandidate, showNewShark, newSharkName, setAsProfile,
                 showPicker, pickedShark, inflight, suggesting>>
  /\ UNCHANGED <<recheckingId, rechecks>>
  /\ UNCHANGED acells
  /\ UNCHANGED vcells

\* =========================================================== PhotoDetail
\* Coordinates are fractions of the surface, counted in hundredths.
Unit == 100
\* the size gate of handleMouseUp: 0.02
MinSide == 2

\* BBox | null, { x, y } | null, Orientation | null
NoRect == [x |-> -1, y |-> -1, w |-> -1, h |-> -1]
NoPoint == [x |-> -1, y |-> -1]

Abs(v) == IF v < 0 THEN -v ELSE v

\* function clamp(v, lo = 0, hi = 1)
clamp(v) == Max(0, Min(Unit, v))

\* mutant of normaliseRect: the sides without Math.abs
normaliseRectNoAbs(ax, ay, bx, by) ==
  [x |-> clamp(Min(ax, bx)), y |-> clamp(Min(ay, by)),
   w |-> clamp(bx - ax), h |-> clamp(by - ay)]

normaliseRect(ax, ay, bx, by) ==
  [x |-> clamp(Min(ax, bx)), y |-> clamp(Min(ay, by)),
   w |-> clamp(Abs(bx - ax)), h |-> clamp(Abs(by - ay))]

\* Where the pointer can be, relative to the surface's box: (clientX - r.left)
\* / r.width and (clientY - r.top) / r.height.  The last one is outside the
\* box (a mouseleave position).
Pointer ==
  { [x |-> 0, y |-> 0], [x |-> 2, y |-> 50], [x |-> 50, y |-> 2],
    [x |-> 104, y |-> 50] }

\* mutant of svgCoords: the fractions are not clamped
svgCoordsNoClamp(e) == [x |-> e.x, y |-> e.y]

svgCoords(e) == [x |-> clamp(e.x), y |-> clamp(e.y)]

\* The photos getPhoto can return: not annotated, pre-filled by the detector,
\* annotated by a person, and one without a raster.
SeedShark == [x |-> 2, y |-> 2, w |-> 48, h |-> 48]
SeedZone == [x |-> 0, y |-> 0, w |-> 100, h |-> 50]
NoPhotoRec ==
  [id |-> 0, url |-> NoUrl, shark_bbox |-> NoRect, zone_bbox |-> NoRect,
   orientation |-> Null, auto_detected |-> FALSE]
FreshPhoto == [NoPhotoRec EXCEPT !.id = 1, !.url = TheUrl]
DetectedPhoto ==
  [FreshPhoto EXCEPT !.shark_bbox = SeedShark, !.zone_bbox = SeedZone,
                     !.auto_detected = TRUE]
AnnotatedPhoto ==
  [FreshPhoto EXCEPT !.shark_bbox = SeedShark, !.zone_bbox = SeedZone,
                     !.orientation = "face_left"]
ServerPhotos == {FreshPhoto, DetectedPhoto, AnnotatedPhoto}
\* what annotate returns: the photo as a person annotated it
UpdatedPhotos == {AnnotatedPhoto}

Orientations == {"face_left", "face_right"}

\* past the loading and "Photo not found" guards
PDShown == ~pdLoading /\ pdPhoto # NoPhotoRec

\* an event of the photo screen that leaves every cell as it is
PDNoOp(op) == ev' = Ev(op) /\ UNCHANGED acells

\* ---------------------------------------------------------- load effect
\* mutant of PDLoadOk: the orientation of the photo is not taken over
PDLoadOkNoOrientation(p) ==
  /\ pdLoading
  /\ pdPhoto' = p
  /\ sharkRect' = IF p.shark_bbox # NoRect THEN p.shark_bbox ELSE sharkRect
  /\ zoneRect' = IF p.zone_bbox # NoRect THEN p.zone_bbox ELSE zoneRect
  /\ pdLoading' = FALSE
  /\ ev' = Ev("PDLoadOk")
  /\ UNCHANGED <<canEdit, pdError, step, orientation, dragStart, liveRect,
                 pdSubmitting, pdInflight>>
  /\ UNCHANGED qcells
  /\ UNCHANGED vcells

\* getPhoto(id).then(...).finally(...)
PDLoadOk(p) ==
  /\ pdLoading
  /\ pdPhoto' = p
  /\ sharkRect' = IF p.shark_bbox # NoRect THEN p.shark_bbox ELSE sharkRect
  /\ zoneRect' = IF p.zone_bbox # NoRect THEN p.zone_bbox ELSE zoneRect
  /\ orientation' = IF p.orientation # Null THEN p.orientation ELSE orientation
  /\ pdLoading' = FALSE
  /\ ev' = Ev("PDLoadOk")
  /\ UNCHANGED <<canEdit, pdError, step, dragStart, liveRect, pdSubmitting,
                 pdInflight>>
  /\ UNCHANGED qcells
  /\ UNCHANGED vcells

PDLoadFail ==
  /\ pdLoading
  /\ pdError' = "Failed to load photo"
  /\ pdLoading' = FALSE
  /\ ev' = Ev("PDLoadFail")
  /\ UNCHANGED <<canEdit, pdPhoto, step, sharkRect, zoneRect, orientation,
                 dragStart, liveRect, pdSubmitting, pdInflight>>
  /\ UNCHANGED qcells
  /\ UNCHANGED vcells

\* ------------------------------------------------------ drawing handlers
\* mutant of DrawShown: the overlay is not mounted while a Submit is in flight
DrawShownIdle ==
  /\ PDShown /\ canEdit /\ ~pdSubmitting
  /\ \/ step = 1 /\ pdPhoto.url # NoUrl
     \/ step = 2 /\ sharkRect # NoRect

\* a DrawOverlay is mounted: step 1 over the photo, step 2 over the crop
DrawShown ==
  /\ PDShown /\ canEdit
  /\ \/ step = 1 /\ pdPhoto.url # NoUrl
     \/ step = 2 /\ sharkRect # NoRect

handleMouseDown(e) ==
  /\ DrawShown
  /\ dragStart' = svgCoords(e)
  /\ liveRect' = [x |-> svgCoords(e).x, y |-> svgCoords(e).y, w |-> 0, h |-> 0]
  /\ ev' = Ev("MouseDown")
  /\ UNCHANGED <<canEdit, pdPhoto, pdLoading, pdError, step, sharkRect,
                 zoneRect, orientation, pdSubmitting, pdInflight>>
  /\ UNCHANGED qcells
  /\ UNCHANGED vcells

handleMouseMove(e) ==
  /\ DrawShown
  /\ liveRect' = IF dragStart = NoPoint THEN liveRect
                 ELSE normaliseRect(dragStart.x, dragStart.y,
                                    svgCoords(e).x, svgCoords(e).y)
  /\ ev' = IF dragStart = NoPoint THEN Ev("MouseMove")
           ELSE [Ev("MouseMove") EXCEPT !.arg = <<svgCoords(e)>>]
  /\ UNCHANGED <<canEdit, pdPhoto, pdLoading, pdError, step, sharkRect,
                 zoneRect, orientation, dragStart, pdSubmitting, pdInflight>>
  /\ UNCHANGED qcells
  /\ UNCHANGED vcells

\* mutant of BigEnough: a side of exactly 0.02 passes the gate
BigEnoughOrEqual(r) == r.w >= MinSide /\ r.h >= MinSide

\* liveRect.w > 0.02 && liveRect.h > 0.02
BigEnough(r) == r.w > MinSide /\ r.h > MinSide

\* mutant of handleMouseUp: liveRect is cleared only when the rectangle is
\* committed
handleMouseUpKeepsLive ==
  /\ DrawShown
  /\ IF dragStart = NoPoint \/ liveRect = NoRect
       THEN /\ dragStart' = NoPoint
            /\ UNCHANGED <<sharkRect, zoneRect, liveRect>>
            /\ ev' = Ev("MouseUp")
       ELSE /\ sharkRect' = IF BigEnough(liveRect) /\ step = 1
                              THEN liveRect ELSE sharkRect
            /\ zoneRect' = IF BigEnough(liveRect) /\ step = 2
                             THEN liveRect ELSE zoneRect
            /\ dragStart' = NoPoint
            /\ liveRect' = IF BigEnough(liveRect) THEN NoRect ELSE liveRect
            /\ ev' = [Ev("MouseUp") EXCEPT !.arg = <<liveRect>>]
  /\ UNCHANGED <<canEdit, pdPhoto, pdLoading, pdError, step, orientation,
                 pdSubmitting, pdInflight>>
  /\ UNCHANGED qcells
  /\ UNCHANGED vcells

\* onMouseUp and onMouseLeave
handleMouseUp ==
  /\ DrawShown
  /\ IF dragStart = NoPoint \/ liveRect = NoRect
       THEN /\ dragStart' = NoPoint
            /\ UNCHANGED <<sharkRect, zoneRect, liveRect>>
            /\ ev' = Ev("MouseUp")
       ELSE /\ sharkRect' = IF BigEnough(liveRect) /\ step = 1
                              THEN liveRect ELSE sharkRect
            /\ zoneRect' = IF BigEnough(liveRect) /\ step = 2
                             THEN liveRect ELSE zoneRect
            /\ dragStart' = NoPoint
            /\ liveRect' = NoRect
            /\ ev' = [Ev("MouseUp") EXCEPT !.arg = <<liveRect>>]
  /\ UNCHANGED <<canEdit, pdPhoto, pdLoading, pdError, step, orientation,
                 pdSubmitting, pdInflight>>
  /\ UNCHANGED qcells
  /\ UNCHANGED vcells

\* ------------------------------------------------------ the step buttons
\* mutant of StepButtonsShown: the buttons are rendered for every role
StepButtonsShownAnyRole == PDShown

\* {canEdit && ( ... navigation buttons ... )}
StepButtonsShown == PDShown /\ canEdit

\* mutant of Next1Disabled: the button is never disabled
Next1NeverDisabled == FALSE

\* Next of step 1: disabled={!sharkRect}
Next1Disabled == sharkRect = NoRect
\* mutant of Next2Disabled: the button is never disabled
Next2NeverDisabled == FALSE

\* Next of step 2: disabled={!zoneRect}
Next2Disabled == zoneRect = NoRect

\* mutant of ClickBack: Back is rendered in step 1 too
ClickBackAnyStep ==
  /\ StepButtonsShown
  /\ step' = step - 1
  /\ ev' = Ev("Back")
  /\ UNCHANGED <<canEdit, pdPhoto, pdLoading, pdError, sharkRect, zoneRect,
                 orientation, dragStart, liveRect, pdSubmitting, pdInflight>>
  /\ UNCHANGED qcells
  /\ UNCHANGED vcells

\* Back: {step > 1 && ...}, setStep(s => s - 1)
ClickBack ==
  /\ StepButtonsShown
  /\ step > 1
  /\ step' = step - 1
  /\ ev' = Ev("Back")
  /\ UNCHANGED <<canEdit, pdPhoto, pdLoading, pdError, sharkRect, zoneRect,
                 orientation, dragStart, liveRect, pdSubmitting, pdInflight>>
  /\ UNCHANGED qcells
  /\ UNCHANGED vcells

ClickNext1 ==
  /\ StepButtonsShown
  /\ step = 1
  /\ IF Next1Disabled
       THEN PDNoOp("Next1")
       ELSE /\ step' = 2
            /\ ev' = Ev("Next1")
            /\ UNCHANGED <<canEdit, pdPhoto, pdLoading, pdError, sharkRect,
                           zoneRect, orientation, dragStart, liveRect,
                           pdSubmitting, pdInflight>>
  /\ UNCHANGED qcells
  /\ UNCHANGED vcells

ClickNext2 ==
  /\ StepButtonsShown
  /\ step = 2
  /\ IF Next2Disabled
       THEN PDNoOp("Next2")
       ELSE /\ step' = 3
            /\ ev' = Ev("Next2")
            /\ UNCHANGED <<canEdit, pdPhoto, pdLoading, pdError, sharkRect,
                           zoneRect, orientation, dragStart, liveRect,
                           pdSubmitting, pdInflight>>
  /\ UNCHANGED qcells
  /\ UNCHANGED vcells

\* Reset of step 1: {step === 1 && sharkRect && ...}
ClickReset1 ==
  /\ StepButtonsShown
  /\ step = 1 /\ sharkRect # NoRect
  /\ sharkRect' = NoRect
  /\ liveRect' = NoRect
  /\ ev' = Ev("Reset1")
  /\ UNCHANGED <<canEdit, pdPhoto, pdLoading, pdError, step, zoneRect,
                 orientation, dragStart, pdSubmitting, pdInflight>>
  /\ UNCHANGED qcells
  /\ UNCHANGED vcells

\* mutant of ClickReset2: without setLiveRect(null)
ClickReset2KeepsLive ==
  /\ StepButtonsShown
  /\ step = 2 /\ zoneRect # NoRect
  /\ zoneRect' = NoRect
  /\ ev' = Ev("Reset2")
  /\ UNCHANGED <<canEdit, pdPhoto, pdLoading, pdError, step, sharkRect,
                 orientation, dragStart, liveRect, pdSubmitting, pdInflight>>
  /\ UNCHANGED qcells
  /\ UNCHANGED vcells

\* Reset of step 2: {step === 2 && zoneRect && ...}
ClickReset2 ==
  /\ StepButtonsShown
  /\ step = 2 /\ zoneRect # NoRect
  /\ zoneRect' = NoRect
  /\ liveRect' = NoRect
  /\ ev' = Ev("Reset2")
  /\ UNCHANGED <<canEdit, pdPhoto, pdLoading, pdError, step, sharkRect,
                 orientation, dragStart, pdSubmitting, pdInflight>>
  /\ UNCHANGED qcells
  /\ UNCHANGED vcells

\* the orientation picker of step 3
SetOrientation(o) ==
  /\ PDShown
  /\ step = 3
  /\ orientation' = o
  /\ ev' = Ev("SetOrientation")
  /\ UNCHANGED <<canEdit, pdPhoto, pdLoading, pdError, step, sharkRect,
                 zoneRect, dragStart, liveRect, pdSubmitting, pdInflight>>
  /\ UNCHANGED qcells
  /\ UNCHANGED vcells

\* mutant of zoneOverlay: the zone is scaled but not moved to the shark
zoneOverlayNoOffset ==
  [x |-> zoneRect.x * sharkRect.w,
   y |-> zoneRect.y * sharkRect.h,
   w |-> zoneRect.w * sharkRect.w,
   h |-> zoneRect.h * sharkRect.h]

\* the zone rectangle as the step 3 overlay draws it over the whole photo:
\* x = sharkRect.x + zoneRect.x * sharkRect.w, ..., width = zoneRect.w *
\* sharkRect.w, ...  The products of two hundredths are kept exact: the result
\* is counted in 1 / (Unit * Unit).
zoneOverlay ==
  [x |-> sharkRect.x * Unit + zoneRect.x * sharkRect.w,
   y |-> sharkRect.y * Unit + zoneRect.y * sharkRect.h,
   w |-> zoneRect.w * sharkRect.w,
   h |-> zoneRect.h * sharkRect.h]

\* mutant of SubmitShown: the button is rendered in every step
SubmitShownAnyStep == TRUE

\* ------------------------------------------------------ submit annotation
\* Confirm Annotation is rendered in step 3
SubmitShown == step = 3
\* mutant of SubmitDisabled: the button ignores submitting
SubmitDisabledOrientationOnly == orientation = Null

\* disabled={!orientation || submitting}
SubmitDisabled == orientation = Null \/ pdSubmitting
\* if (!photo || !sharkRect || !zoneRect || !orientation) return
SubmitGuard ==
  /\ pdPhoto # NoPhotoRec /\ sharkRect # NoRect /\ zoneRect # NoRect
  /\ orientation # Null

\* mutant of AnnotateBody: the zone is sent as the overlay draws it
AnnotateBodyImageSpace ==
  [shark_bbox |-> sharkRect, zone_bbox |-> zoneOverlay,
   orientation |-> orientation]

AnnotateBody ==
  [shark_bbox |-> sharkRect, zone_bbox |-> zoneRect,
   orientation |-> orientation]

\* the click, and handleSubmit up to its await
handleSubmit ==
  /\ StepButtonsShown
  /\ SubmitShown
  /\ IF SubmitDisabled \/ ~SubmitGuard
       THEN PDNoOp("Submit")
       ELSE /\ pdSubmitting' = TRUE
            /\ pdError' = ""
            /\ pdInflight' = Append(pdInflight, AnnotateBody)
            /\ ev' = [Ev("Submit") EXCEPT
                        !.req = <<[id |-> pdPhoto.id, body |-> AnnotateBody]>>]
            /\ UNCHANGED <<canEdit, pdPhoto, pdLoading, step, sharkRect,
                           zoneRect, orientation, dragStart, liveRect>>
  /\ UNCHANGED qcells
  /\ UNCHANGED vcells

\* mutant of AnnotateResp: the success path without setStep(1)
AnnotateRespKeepsStep(i, r, updated) ==
  /\ i \in 1..Len(pdInflight)
  /\ pdInflight' = [j \in 1..(Len(pdInflight) - 1) |->
                      IF j < i THEN pdInflight[j] ELSE pdInflight[j + 1]]
  /\ IF ReqRejects(r)
       THEN /\ pdError' = ReqMessage(r)
            /\ UNCHANGED <<pdPhoto, step>>
       ELSE /\ pdPhoto' = IF RespOk(r) THEN updated ELSE NoPhotoRec
            /\ UNCHANGED <<step, pdError>>
  /\ pdSubmitting' = FALSE
  /\ ev' = [Ev("AnnotateResp") EXCEPT !.status = r.status]
  /\ UNCHANGED <<canEdit, pdLoading, sharkRect, zoneRect, orientation,
                 dragStart, liveRect>>
  /\ UNCHANGED qcells
  /\ UNCHANGED vcells

\* handleSubmit after its await: annotatePhoto settled with response r; a
\* 2xx response carries the updated photo, a 401 resolves with undefined
AnnotateResp(i, r, updated) ==
  /\ i \in 1..Len(pdInflight)
  /\ pdInflight' = [j \in 1..(Len(pdInflight) - 1) |->
                      IF j < i THEN pdInflight[j] ELSE pdInflight[j + 1]]
  /\ IF ReqRejects(r)
       THEN /\ pdError' = ReqMessage(r)
            /\ UNCHANGED <<pdPhoto, step>>
       ELSE /\ pdPhoto' = IF RespOk(r) THEN updated ELSE NoPhotoRec
            /\ step' = 1
            /\ UNCHANGED pdError
  /\ pdSubmitting' = FALSE
  /\ ev' = [Ev("AnnotateResp") EXCEPT !.status = r.status]
  /\ UNCHANGED <<canEdit, pdLoading, sharkRect, zoneRect, orientation,
                 dragStart, liveRect>>
  /\ UNCHANGED qcells
  /\ UNCHANGED vcells

\* ===================================================== DiveSessionDetail
\* How many getSessionVideos calls and how many getDiveSession calls may
\* await their response.
MaxPolls == 2
MaxFetch == 2

\* VideoStatus
VideoStatuses == {"uploaded", "processing", "done", "error"}
\* The ids of the session's videos: one the session came with, and the one
\* handleVideo uploads.
OldVideo == 1
NewVideo == 2
Video(i, st) == [id |-> i, processing_status |-> st]

\* What getSessionVideos can answer: the session's videos, newest first.
\* The older video is seen processing, done or failed, the uploaded one
\* waiting or done.
OldStatuses == {"processing", "done", "error"}
NewStatuses == {"uploaded", "done"}
VideoLists ==
  {<<>>}
  \cup {<<Video(OldVideo, st)>> : st \in OldStatuses}
  \cup {<<Video(NewVideo, st)>> : st \in NewStatuses}
  \cup {<<Video(NewVideo, a), Video(OldVideo, b)>> :
          a \in NewStatuses, b \in OldStatuses}

\* one more call awaits its response, one call less does
Plus(bag, c) == bag (+) SetToBag({c})
Less(bag, c) == bag (-) SetToBag({c})

\* videos.some(v => v.processing_status === 'uploaded' ||
\*                  v.processing_status === 'processing')
Active(vs) ==
  \E k \in 1..Len(vs) :
    vs[k].processing_status = "uploaded" \/ vs[k].processing_status = "processing"

\* The polling effect, run after a render with a new videos array: the
\* cleanup of the previous run clears its interval, and an interval is
\* installed, its callback closing over vs, if a video is active.
PollEffect(vs) == IF Active(vs) THEN <<vs>> ELSE <<>>

\* fresh.some(v => v.processing_status === 'done' &&
\*   videos.find(old => old.id === v.id)?.processing_status !== 'done')
\* find returns the first video of that id
wasDone(fresh, old) ==
  \E k \in 1..Len(fresh) :
    /\ fresh[k].processing_status = "done"
    /\ LET at == {j \in 1..Len(old) : old[j].id = fresh[k].id}
       IN at = {} \/
          old[CHOOSE j \in at : \A m \in at : j <= m].processing_status # "done"

DoneIds(vs) == {vs[k].id : k \in {j \in 1..Len(vs) : vs[j].processing_status = "done"}}
VideoIds(vs) == {vs[k].id : k \in 1..Len(vs)}

\* setVideos(vs) and the render after it
setVideos(vs) ==
  /\ videos' = vs
  /\ timer' = PollEffect(vs)
  /\ everDone' = everDone \cup DoneIds(vs)

\* the interval's callback, every 3000 ms: getSessionVideos(id)
Tick ==
  /\ timer # <<>>
  /\ BagCardinality(polls) < MaxPolls
  /\ polls' = Plus(polls, [kind |-> "poll", old |-> timer[1]])
  /\ ev' = [Ev("Tick") EXCEPT !.req = <<[get |-> "videos"]>>]
  /\ UNCHANGED <<session, dsLoading, dsError, videos, videoUploading, timer,
                 fetches, deleting, everDone>>
  /\ UNCHANGED qcells
  /\ UNCHANGED acells

\* mutant of VideosOk: the poll's continuation never refetches the session
VideosOkNoRefetch(p, fresh) ==
  /\ BagIn(p, polls)
  /\ polls' = Less(polls, p)
  /\ setVideos(fresh)
  /\ ev' = [Ev(IF p.kind = "poll" THEN "PollOk" ELSE "VideosLoaded")
              EXCEPT !.arg = <<fresh>>]
  /\ UNCHANGED <<session, dsLoading, dsError, videoUploading, fetches,
                 deleting>>
  /\ UNCHANGED qcells
  /\ UNCHANGED acells

\* getSessionVideos resolved: .then(setVideos) of the mount effect, or the
\* .then of the interval's callback, which also reloads the session if a
\* video just finished
VideosOk(p, fresh) ==
  /\ BagIn(p, polls)
  /\ polls' = Less(polls, p)
  /\ setVideos(fresh)
  /\ IF p.kind = "poll" /\ wasDone(fresh, p.old)
       THEN /\ BagCardinality(fetches) < MaxFetch
            /\ fetches' = Plus(fetches, "poll")
            /\ ev' = [Ev("PollOk") EXCEPT !.arg = <<fresh>>,
                                          !.req = <<[get |-> "session"]>>]
       ELSE /\ UNCHANGED fetches
            /\ ev' = [Ev(IF p.kind = "poll" THEN "PollOk"
                         ELSE "VideosLoaded") EXCEPT !.arg = <<fresh>>]
  /\ UNCHANGED <<session, dsLoading, dsError, videoUploading, deleting>>
  /\ UNCHANGED qcells
  /\ UNCHANGED acells

\* getSessionVideos rejected: .catch(() => {})
VideosFail(p) ==
  /\ BagIn(p, polls)
  /\ polls' = Less(polls, p)
  /\ ev' = Ev(IF p.kind = "poll" THEN "PollFail" ELSE "VideosFail")
  /\ UNCHANGED <<session, dsLoading, dsError, videos, videoUploading, timer,
                 fetches, deleting, everDone>>
  /\ UNCHANGED qcells
  /\ UNCHANGED acells

\* getDiveSession settled: .then, .catch and .finally of the mount effect, or
\* .then(setSession).catch(() => {}) of the poll
SessionResp(f, ok) ==
  /\ BagIn(f, fetches)
  /\ fetches' = Less(fetches, f)
  /\ session' = IF ok THEN "session" ELSE session
  /\ dsError' = IF ~ok /\ f = "mount" THEN "Failed to load session"
                ELSE dsError
  /\ dsLoading' = IF f = "mount" THEN FALSE ELSE dsLoading
  /\ ev' = Ev(IF ok THEN "SessionOk" ELSE "SessionFail")
  /\ UNCHANGED <<videos, videoUploading, timer, polls, deleting, everDone>>
  /\ UNCHANGED qcells
  /\ UNCHANGED acells

\* the page body is rendered: past the loading and the not-found returns
SessionShown == ~dsLoading /\ session # Null

\* handleVideo up to its await; the Choose Video File button is rendered for
\* an editor and is disabled={videoUploading}
handleVideo ==
  /\ SessionShown /\ canEdit
  /\ ~videoUploading
  /\ NewVideo \notin VideoIds(videos)
  /\ videoUploading' = TRUE
  /\ dsError' = ""
  /\ ev' = [Ev("Upload") EXCEPT !.req = <<[post |-> "video"]>>]
  /\ UNCHANGED <<session, dsLoading, videos, timer, polls, fetches, deleting,
                 everDone>>
  /\ UNCHANGED qcells
  /\ UNCHANGED acells

\* handleVideo after its await: setVideos(prev => [vid, ...prev]) or the
\* catch block, then finally
UploadResp(r, st) ==
  /\ videoUploading
  /\ IF ReqRejects(r)
       THEN /\ dsError' = ReqMessage(r)
            /\ UNCHANGED <<videos, timer, everDone>>
       ELSE /\ setVideos(<<Video(NewVideo, st)>> \o videos)
            /\ UNCHANGED dsError
  /\ videoUploading' = FALSE
  /\ ev' = [Ev("UploadResp") EXCEPT !.status = r.status]
  /\ UNCHANGED <<session, dsLoading, polls, fetches, deleting>>
  /\ UNCHANGED qcells
  /\ UNCHANGED acells

\* handleDeleteVideo up to its await (window.confirm answered yes); the
\* Delete button of a video is rendered for an editor
handleDeleteVideo(videoId) ==
  /\ SessionShown /\ canEdit
  /\ videoId \in VideoIds(videos)
  /\ videoId \notin deleting
  /\ deleting' = deleting \cup {videoId}
  /\ ev' = [Ev("Delete") EXCEPT !.req = <<[delete |-> videoId]>>]
  /\ UNCHANGED <<session, dsLoading, dsError, videos, videoUploading, timer,
                 polls, fetches, everDone>>
  /\ UNCHANGED qcells
  /\ UNCHANGED acells

\* handleDeleteVideo after its await:
\* setVideos(prev => prev.filter(v => v.id !== videoId)) or the catch block
DeleteResp(videoId, r) ==
  /\ videoId \in deleting
  /\ deleting' = deleting \ {videoId}
  /\ IF ReqRejects(r)
       THEN /\ dsError' = ReqMessage(r)
            /\ UNCHANGED <<videos, timer, everDone>>
       ELSE /\ setVideos(SelectSeq(videos, LAMBDA v : v.id # videoId))
            /\ UNCHANGED dsError
  /\ ev' = [Ev("DeleteResp") EXCEPT !.status = r.status]
  /\ UNCHANGED <<session, dsLoading, videoUploading, polls, fetches>>
  /\ UNCHANGED qcells
  /\ UNCHANGED acells

\* ------------------------------------------------------------ specification
\* the cells of ValidationQueue as useState initialises them
QueueMount ==
  /\ tab = "queue" /\ queue = <<>> /\ idx = 0 /\ loading = TRUE /\ error = ""
  /\ submitting = FALSE /\ lightboxUrl = NoUrl /\ selectedCandidate = Null
  /\ showNewShark = FALSE /\ newSharkName = <<>> /\ setAsProfile = TRUE
  /\ showPicker = FALSE /\ pickedShark = Null
  /\ inflight = <<>> /\ suggesting = 0
  /\ unlinked = <<>> /\ recheckingId = NoPhoto /\ recheckingAll = FALSE
  /\ rechecks = <<>> /\ recheckAlls = <<>>

\* the cells of PhotoDetail as useState initialises them
PhotoMount ==
  /\ pdPhoto = NoPhotoRec /\ pdLoading = TRUE /\ pdError = ""
  /\ step = 1 /\ sharkRect = NoRect /\ zoneRect = NoRect
  /\ orientation = Null /\ dragStart = NoPoint /\ liveRect = NoRect
  /\ pdSubmitting = FALSE /\ pdInflight = <<>>

\* the cells of DiveSessionDetail as useState initialises them, with the
\* calls its mount effect has made
SessionMount ==
  /\ session = Null /\ dsLoading = TRUE /\ dsError = ""
  /\ videos = <<>> /\ videoUploading = FALSE /\ timer = <<>>
  /\ polls = SetToBag({[kind |-> "load", old |-> <<>>]})
  /\ fetches = SetToBag({"mount"})
  /\ deleting = {} /\ everDone = {}

\* The validation queue screen.
InitQ ==
  /\ QueueMount /\ PhotoMount /\ SessionMount
  /\ canEdit = TRUE /\ ev = Ev("mount")

NextQ ==
  \/ \E n \in 0..MaxQueue : LoadOk(n)
  \/ LoadFail
  \/ \E k \in {"ArrowLeft", "ArrowRight"} : handleKey(k)
  \/ ClickPrev
  \/ ClickNext
  \/ \E t \in {"queue", "unlinked"} : SetTab(t)
  \/ \E c \in {"s1", "s2"} : SelectCandidate(c)
  \/ OpenLightbox
  \/ CloseLightbox
  \/ openPicker
  \/ \E s \in Sharks : PickShark(s)
  \/ ClosePicker
  \/ openNewShark
  \/ \E n \in SuggestedNames : SuggestResp(TRUE, n)
  \/ SuggestResp(FALSE, <<>>)
  \/ \E n \in Names : EditName(n)
  \/ ToggleProfile
  \/ CloseNewShark
  \/ handleConfirm
  \/ handleSelect
  \/ handleCreate
  \/ handleUnlink
  \/ \E i \in 1..Len(inflight), r \in Responses : ValidateResp(i, r)

SpecQ == InitQ /\ [][NextQ]_vars

\* The promise of suggestSharkName settles: fetch resolves or rejects.
SuggestSettles ==
  \/ \E n \in SuggestedNames : SuggestResp(TRUE, n)
  \/ SuggestResp(FALSE, <<>>)

\* The validation queue screen with a network that answers the name
\* suggestion.
SpecQL == SpecQ /\ WF_vars(SuggestSettles)

\* The Create-new flow of the validation queue screen on its own: the load,
\* the tabs, the two modals and the Create request, with a network that
\* answers the name suggestion.
NextN ==
  \/ \E n \in 0..MaxQueue : LoadOk(n)
  \/ LoadFail
  \/ \E t \in {"queue", "unlinked"} : SetTab(t)
  \/ openPicker
  \/ ClosePicker
  \/ openNewShark
  \/ \E n \in SuggestedNames : SuggestResp(TRUE, n)
  \/ SuggestResp(FALSE, <<>>)
  \/ \E n \in Names : EditName(n)
  \/ ToggleProfile
  \/ CloseNewShark
  \/ handleCreate
  \/ \E i \in 1..Len(inflight), r \in Responses : ValidateResp(i, r)

SpecN == InitQ /\ [][NextN]_vars /\ WF_vars(SuggestSettles)

\* What Promise.allSettled can hand to handleRecheckAll: one answer per
\* captured id.
AllSettled == UNION {[1..n -> Responses] : n \in 1..Len(ServerUnlinked)}

\* The validation queue screen with its unlinked tab: the load, the tabs,
\* the Next button, the candidate list, the lightbox, the two modals, Leave
\* Unlinked and the rechecks of the unlinked tab. The user starts a recheck of
\* one photo when no other such recheck is awaited, and the naming
\* collaborator is down.
NextU ==
  \/ \E n \in 0..MaxQueue : LoadOk(n)
  \/ LoadFail
  \/ ClickNext
  \/ \E t \in {"queue", "unlinked"} : SetTab(t)
  \/ \E c \in {"s1", "s2"} : SelectCandidate(c)
  \/ OpenLightbox
  \/ CloseLightbox
  \/ openPicker
  \/ ClosePicker
  \/ openNewShark
  \/ SuggestResp(FALSE, <<>>)
  \/ CloseNewShark
  \/ handleUnlink
  \/ \E i \in 1..Len(inflight), r \in Responses : ValidateResp(i, r)
  \/ \E id \in Range(ServerUnlinked) : rechecks = <<>> /\ handleRecheck(id)
  \/ \E i \in 1..Len(rechecks), r \in Responses : RecheckResp(i, r)
  \/ handleRecheckAll
  \/ \E res \in AllSettled : RecheckAllResp(res)

SpecU == InitQ /\ [][NextU]_vars

\* The dive-session screen: the mount effect's loads, the polling effect
\* and its timer, the video upload and the video deletion (the server accepts
\* the upload and the deletion).
Accepted == [status |-> 200, detail |-> ""]

NextV ==
  \/ Tick
  \/ \E p \in BagToSet(polls), fresh \in VideoLists : VideosOk(p, fresh)
  \/ \E p \in BagToSet(polls) : VideosFail(p)
  \/ \E f \in BagToSet(fetches), ok \in BOOLEAN : SessionResp(f, ok)
  \/ handleVideo
  \/ UploadResp(Accepted, "uploaded")
  \/ handleDeleteVideo(OldVideo)
  \/ DeleteResp(OldVideo, Accepted)

SpecV == InitQ /\ [][NextV]_vars

\* The two modals of the validation queue screen with a user who asks for a
\* modal (Create New, Select Other) only while the first photo of the loaded
\* list is under the cursor, and who may press the arrow keys, resolve with
\* Leave Unlinked, pick, name and send at any time.
AskedPhoto == Head(ServerQueue(MaxQueue))

NextC ==
  \/ \E n \in 0..MaxQueue : LoadOk(n)
  \/ LoadFail
  \/ \E k \in {"ArrowLeft", "ArrowRight"} : handleKey(k)
  \/ photo = AskedPhoto /\ openPicker
  \/ \E s \in Sharks : PickShark(s)
  \/ ClosePicker
  \/ photo = AskedPhoto /\ openNewShark
  \/ \E n \in SuggestedNames : SuggestResp(TRUE, n)
  \/ SuggestResp(FALSE, <<>>)
  \/ CloseNewShark
  \/ handleSelect
  \/ handleCreate
  \/ handleUnlink
  \/ \E i \in 1..Len(inflight), r \in Responses : ValidateResp(i, r)

SpecC == InitQ /\ [][NextC]_vars

\* The overlays of the validation queue screen with a user of the mouse: a
\* button of the page is clicked only while no modal and no enlarged image
\* covers it.
NoOverlay == ~showNewShark /\ ~showPicker /\ lightboxUrl = NoUrl

NextM ==
  \/ \E n \in 0..MaxQueue : LoadOk(n)
  \/ LoadFail
  \/ NoOverlay /\ ClickNext
  \/ NoOverlay /\ OpenLightbox
  \/ CloseLightbox
  \/ NoOverlay /\ openPicker
  \/ ClosePicker
  \/ NoOverlay /\ openNewShark
  \/ \E n \in SuggestedNames : SuggestResp(TRUE, n)
  \/ SuggestResp(FALSE, <<>>)
  \/ CloseNewShark

SpecM == InitQ /\ [][NextM]_vars

\* The photo screen, opened by an editor or by a viewer (role from useAuth).
InitA ==
  /\ QueueMount /\ PhotoMount /\ SessionMount
  /\ canEdit \in BOOLEAN /\ ev = Ev("mount")

NextA ==
  \/ \E p \in ServerPhotos : PDLoadOk(p)
  \/ PDLoadFail
  \/ \E e \in Pointer : handleMouseDown(e)
  \/ \E e \in Pointer : handleMouseMove(e)
  \/ handleMouseUp
  \/ ClickBack
  \/ ClickNext1
  \/ ClickNext2
  \/ ClickReset1
  \/ ClickReset2
  \/ \E o \in Orientations : SetOrientation(o)
  \/ handleSubmit
  \/ \E i \in 1..Len(pdInflight), r \in Responses, u \in UpdatedPhotos :
       AnnotateResp(i, r, u)

SpecA == InitA /\ [][NextA]_vars

\* The photo screen, opened on a photo without rectangles by an editor who
\* clicks a button only while no drag is in progress, and who ends a drag on
\* the zone surface only while the shark rectangle is SeedShark: every zone
\* this editor draws is drawn against SeedShark.
NoDrag == dragStart = NoPoint

NextB ==
  \/ PDLoadOk(FreshPhoto)
  \/ PDLoadFail
  \/ \E e \in Pointer : handleMouseDown(e)
  \/ \E e \in Pointer : handleMouseMove(e)
  \/ (step = 2 => sharkRect = SeedShark) /\ handleMouseUp
  \/ NoDrag /\ ClickBack
  \/ NoDrag /\ ClickNext1
  \/ NoDrag /\ ClickNext2
  \/ NoDrag /\ ClickReset1
  \/ NoDrag /\ ClickReset2
  \/ \E o \in Orientations : NoDrag /\ SetOrientation(o)
  \/ NoDrag /\ handleSubmit
  \/ \E i \in 1..Len(pdInflight), r \in Responses, u \in UpdatedPhotos :
       AnnotateResp(i, r, u)

SpecB == InitQ /\ [][NextB]_vars

\* The photo screen, opened on a photo the detector pre-filled by an editor who
\* presses the mouse button only on the zone surface of step 2 and clicks a
\* button only while no drag is in progress: every drag starts in step 2.  The
\* annotate call settles whenever the server answers.
NextD ==
  \/ PDLoadOk(DetectedPhoto)
  \/ PDLoadFail
  \/ \E e \in Pointer : step = 2 /\ handleMouseDown(e)
  \/ \E e \in Pointer : handleMouseMove(e)
  \/ handleMouseUp
  \/ NoDrag /\ ClickBack
  \/ NoDrag /\ ClickNext1
  \/ NoDrag /\ ClickNext2
  \/ NoDrag /\ ClickReset1
  \/ NoDrag /\ ClickReset2
  \/ \E o \in Orientations : NoDrag /\ SetOrientation(o)
  \/ NoDrag /\ handleSubmit
  \/ \E i \in 1..Len(pdInflight), r \in Responses, u \in UpdatedPhotos :
       AnnotateResp(i, r, u)

SpecD == InitQ /\ [][NextD]_vars

\* Pointer positions inside the surface's box and beyond each of its edges.
EdgePointer == [x : {-3, 2, 50, 104}, y : {-3, 50, 104}]

\* The two draw surfaces on their own: an editor has opened a photo without
\* rectangles (the state the load effect leaves), draws on the photo, goes on
\* to the crop and draws there, and comes back.
InitG ==
  /\ QueueMount /\ SessionMount /\ canEdit = TRUE
  /\ pdPhoto = FreshPhoto /\ pdLoading = FALSE /\ pdError = ""
  /\ step = 1 /\ sharkRect = NoRect /\ zoneRect = NoRect /\ orientation = Null
  /\ dragStart = NoPoint /\ liveRect = NoRect
  /\ pdSubmitting = FALSE /\ pdInflight = <<>>
  /\ ev = Ev("PDLoadOk")

NextG ==
  \/ \E e \in EdgePointer : handleMouseDown(e)
  \/ \E e \in EdgePointer : handleMouseMove(e)
  \/ handleMouseUp
  \/ ClickNext1
  \/ ClickBack

SpecG == InitG /\ [][NextG]_vars

\* Pointer positions on a finer grid, inside the surface's box and outside it.
GridCoords == {-3, 0, 1, 2, 3, 50, 98, 100, 104}
GridPointer == [x : GridCoords, y : GridCoords]

\* The draw surface on its own: an editor has opened a photo and pressed the
\* mouse button somewhere on it (the state handleMouseDown leaves), and moves
\* the pointer.
InitF ==
  /\ QueueMount /\ SessionMount /\ canEdit = TRUE
  /\ pdPhoto = FreshPhoto /\ pdLoading = FALSE /\ pdError = ""
  /\ step = 1 /\ sharkRect = NoRect /\ zoneRect = NoRect /\ orientation = Null
  /\ pdSubmitting = FALSE /\ pdInflight = <<>>
  /\ \E e \in GridPointer :
       /\ dragStart = svgCoords(e)
       /\ liveRect = [x |-> svgCoords(e).x, y |-> svgCoords(e).y,
                      w |-> 0, h |-> 0]
  /\ ev = Ev("MouseDown")

NextF == \E e \in GridPointer : handleMouseMove(e)

SpecF == InitF /\ [][NextF]_vars

\* Rectangles a photo can carry as shark_bbox and as zone_bbox: components in
\* [0,1], degenerate and full-size ones included.
SharkBoxes ==
  [x : {0, 10, 50}, y : {0, 10, 50}, w : {0, 40, 100}, h : {0, 40, 100}]
ZoneBoxes ==
  [x : {0, 50, 100}, y : {0, 50, 100}, w : {0, 50, 100}, h : {0, 50, 100}]

\* The overlay of step 3 on its own: an editor has opened a photo that the
\* detector pre-filled (the state the load effect leaves) and walks through
\* the steps.
InitO ==
  /\ QueueMount /\ SessionMount /\ canEdit = TRUE
  /\ \E s \in SharkBoxes, z \in ZoneBoxes :
       /\ pdPhoto = [FreshPhoto EXCEPT !.shark_bbox = s, !.zone_bbox = z,
                                       !.auto_detected = TRUE]
       /\ sharkRect = s /\ zoneRect = z
  /\ pdLoading = FALSE /\ pdError = "" /\ step = 1 /\ orientation = Null
  /\ dragStart = NoPoint /\ liveRect = NoRect
  /\ pdSubmitting = FALSE /\ pdInflight = <<>>
  /\ ev = Ev("PDLoadOk")

NextO ==
  \/ ClickNext1
  \/ ClickNext2
  \/ ClickBack
  \/ \E o \in Orientations : SetOrientation(o)

SpecO == InitO /\ [][NextO]_vars

\* The promises of the load, of validatePhoto and of annotatePhoto settle.
LoadSettles == (\E n \in 0..MaxQueue : LoadOk(n)) \/ LoadFail
ValidateSettles ==
  \E i \in 1..Len(inflight), r \in Responses : ValidateResp(i, r)
AnnotateSettles ==
  \E i \in 1..Len(pdInflight), r \in Responses, u \in UpdatedPhotos :
    AnnotateResp(i, r, u)

\* The request cycles of the two screens (load, resolution action, annotation
\* Submit) with a network that answers every request.
NextR ==
  \/ \E n \in 0..MaxQueue : LoadOk(n)
  \/ LoadFail
  \/ \E c \in {"s1", "s2"} : SelectCandidate(c)
  \/ handleConfirm
  \/ handleUnlink
  \/ \E i \in 1..Len(inflight), r \in Responses : ValidateResp(i, r)
  \/ \E p \in ServerPhotos : PDLoadOk(p)
  \/ PDLoadFail
  \/ ClickBack
  \/ ClickNext1
  \/ ClickNext2
  \/ \E o \in Orientations : SetOrientation(o)
  \/ handleSubmit
  \/ \E i \in 1..Len(pdInflight), r \in Responses, u \in UpdatedPhotos :
       AnnotateResp(i, r, u)

SpecR ==
  /\ InitQ /\ [][NextR]_vars
  /\ WF_vars(LoadSettles) /\ WF_vars(ValidateSettles)
  /\ WF_vars(AnnotateSettles)

\* ==================================================================== claims
NavOps == {"Prev", "Next", "ArrowLeft", "ArrowRight"}
ResolveOps == {"Confirm", "Select", "Create", "Unlink"}

\* C1: after every operation of the validation queue the cursor satisfies
\* 0 <= cursor < max(len(items), 1), also when items is empty.
C1_CursorInRange == idx >= 0 /\ idx < Max(Len(queue), 1)

\* C2: a successful resolution removes exactly the resolved photo from items
\* (the others keep their order), sets the cursor to
\* min(previous cursor, max(len(items) - 1, 0)) and clears selectedCandidate.
C2_SuccessRemovesResolved ==
  [][(ev'.op = "ValidateResp" /\ ev'.status = 200) =>
       \E i \in 1..Len(inflight) :
         /\ inflight[i].photo \in Range(queue)
         /\ queue' = SelectSeq(queue, LAMBDA p : p # inflight[i].photo)
         /\ Len(queue') = Len(queue) - 1
         /\ idx' = Min(idx, Max(Len(queue') - 1, 0))
         /\ selectedCandidate' = Null]_vars

\* C2 witness: the first of three photos was resolved with the cursor on it:
\* items [1,2,3], cursor 0 became items [2,3], cursor 0, nothing selected.
C2_Witness ==
  /\ ev.op = "ValidateResp" /\ ev.status = 200
  /\ queue = <<2, 3>> /\ idx = 0 /\ selectedCandidate = Null

\* C3: a rejected validate call leaves items, cursor and selectedCandidate as
\* they were when the response arrived, and sets the error message.
C3_FailureKeepsState ==
  [][(ev'.op = "ValidateResp" /\ ev'.status \notin {200, 401}) =>
       /\ UNCHANGED <<queue, idx, selectedCandidate>>
       /\ error' # ""
       /\ \E r \in Responses : r.status = ev'.status /\ error' = r.detail]_vars

\* C3 witness: a Confirm on the second photo was rejected; the candidate is
\* still selected and the cursor still on that photo.
C3_Witness ==
  /\ ev.op = "ValidateResp" /\ ev.status = 400
  /\ queue = <<1, 2>> /\ idx = 1 /\ selectedCandidate = "s2"
  /\ error = "Shark not found" /\ ~submitting

\* C4: a resolution action changes items and cursor neither when it starts
\* its request nor when the response is not a success, whatever its status.
C4_OnlyAfterSuccess ==
  [][/\ ev'.req # <<>> => UNCHANGED <<queue, idx>>
     /\ (ev'.op = "ValidateResp" /\ ev'.status # 200)
          => UNCHANGED <<queue, idx>>]_vars

\* C5: whenever Prev or Next (button or arrow key) moves the cursor,
\* selectedCandidate is reset to null.
C5_NavigationClearsSelection ==
  [][(ev'.op \in NavOps /\ idx' # idx) => selectedCandidate' = Null]_vars

\* C6: an arrow key leaves the cursor unchanged while the new-identity modal,
\* the picker modal or the enlarged image is open, or the unlinked tab is
\* active.
C6_KeysSuppressed ==
  [][(/\ ev'.op \in {"ArrowLeft", "ArrowRight"}
      /\ \/ showNewShark \/ showPicker \/ lightboxUrl # NoUrl
         \/ tab = "unlinked")
       => idx' = idx]_vars

\* C6 witness: ArrowRight arrived with the new-identity modal open over the
\* queue tab while a next photo existed, and the cursor stayed.
C6_Witness ==
  /\ ev.op = "ArrowRight" /\ showNewShark /\ ~showPicker
  /\ lightboxUrl = NoUrl /\ tab = "queue" /\ idx + 1 < Len(queue)

\* C7: at most one validate request is in flight, and while submitting is
\* true no click on Confirm, Select-other, Create-new or Leave-unlinked
\* starts a request.
C7_OneInFlight ==
  /\ [](Len(inflight) <= 1)
  /\ [][submitting => (ev'.req = <<>> /\ Len(inflight') <= Len(inflight))]_vars

\* C7 witness: Create was clicked with a valid name in the modal while a
\* request was in flight, and sent nothing.
C7_Witness ==
  /\ ev.op = "Create" /\ ev.req = <<>> /\ submitting /\ Len(inflight) = 1
  /\ showNewShark /\ newSharkName = <<" ", "b">>

\* t is s without its leading and trailing blanks
IsTrimOf(t, s) ==
  /\ \E a \in 0..Len(s) : \E b \in a..Len(s) :
       /\ t = SubSeq(s, a + 1, b)
       /\ \A i \in 1..a : s[i] = " "
       /\ \A i \in (b + 1)..Len(s) : s[i] = " "
  /\ t = <<>> \/ (t[1] # " " /\ t[Len(t)] # " ")

Blank(s) == \A i \in 1..Len(s) : s[i] = " "

\* C8: a validate request always carries its extras: Confirm sends the
\* selected candidate's shark_id with set_as_profile_photo false, Select-other
\* the picked identity's id, Create-new the non-empty trimmed name with
\* name_status temporary; with the extra missing the click changes nothing.
C8_RequestsCarryExtras ==
  [][/\ ev'.req # <<>> => ev'.op \in ResolveOps
     /\ ev'.op = "Confirm" =>
          IF selectedCandidate = Null
            THEN ev'.req = <<>> /\ UNCHANGED qcells
            ELSE ev'.req # <<>> =>
                   /\ ev'.req[1].body.action = "confirm"
                   /\ ev'.req[1].body.shark_id = selectedCandidate
                   /\ ev'.req[1].body.set_as_profile_photo = FALSE
     /\ ev'.op = "Select" =>
          IF pickedShark = Null
            THEN ev'.req = <<>> /\ UNCHANGED qcells
            ELSE ev'.req # <<>> =>
                   /\ ev'.req[1].body.action = "select"
                   /\ ev'.req[1].body.shark_id = pickedShark
                   /\ pickedShark \in Sharks
     /\ ev'.op = "Create" =>
          IF Blank(newSharkName)
            THEN ev'.req = <<>> /\ UNCHANGED qcells
            ELSE ev'.req # <<>> =>
                   /\ ev'.req[1].body.action = "create"
                   /\ ev'.req[1].body.shark_name # <<>>
                   /\ IsTrimOf(ev'.req[1].body.shark_name, newSharkName)
                   /\ ev'.req[1].body.name_status = "temporary"]_vars

\* C8 witness: Create sent a request for a name typed with a leading blank.
C8_Witness ==
  /\ ev.op = "Create" /\ ev.req # <<>> /\ newSharkName = <<" ", "b">>

\* C9: Step1 -> Step2 is a no-op while sharkRect is null and Step2 -> Step3
\* is a no-op while zoneRect is null; otherwise the step moves forward by one,
\* and the step never moves forward in any other way.
C9_ForwardNeedsRect ==
  [][/\ ev'.op = "Next1" =>
          IF sharkRect = NoRect THEN UNCHANGED acells
          ELSE step = 1 /\ step' = 2
     /\ ev'.op = "Next2" =>
          IF zoneRect = NoRect THEN UNCHANGED acells
          ELSE step = 2 /\ step' = 3
     /\ step' > step =>
          \/ step = 1 /\ step' = 2 /\ sharkRect # NoRect
          \/ step = 2 /\ step' = 3 /\ zoneRect # NoRect]_vars

\* C9 witness: Next was accepted in step 1 (sharkRect set) and then refused
\* in step 2, where zoneRect is null.
C9_Witness ==
  /\ ev.op = "Next2" /\ step = 2 /\ sharkRect # NoRect /\ zoneRect = NoRect

\* C10: an annotate request is sent only from step 3 and only with orientation
\* set; a Submit click with orientation null sends nothing.
C10_SubmitOnlyStep3 ==
  [][/\ (ev'.req # <<>> \/ Len(pdInflight') > Len(pdInflight)) =>
          /\ ev'.op = "Submit" /\ step = 3 /\ orientation # Null
          /\ ev'.req # <<>> /\ ev'.req[1].body.orientation = orientation
     /\ (ev'.op = "Submit" /\ orientation = Null) =>
          ev'.req = <<>> /\ UNCHANGED acells]_vars

\* C10 witness: an annotate request was sent (from step 3).
C10_Witness ==
  /\ ev.op = "Submit" /\ ev.req # <<>> /\ step = 3 /\ orientation # Null
  /\ Len(pdInflight) = 1

DragOps == {"MouseDown", "MouseMove", "MouseUp"}

\* C11: a drag whose final rectangle has w <= 0.02 or h <= 0.02 (a click
\* without movement and a side of exactly 0.02 included) leaves sharkRect and
\* zoneRect unchanged; among the drag events only a drag end with w > 0.02 and
\* h > 0.02 writes a rectangle, and it writes the rectangle of the drag.
C11_SmallDragWritesNothing ==
  [][/\ (/\ ev'.op = "MouseUp" /\ dragStart # NoPoint /\ liveRect # NoRect
         /\ (liveRect.w <= MinSide \/ liveRect.h <= MinSide))
          => UNCHANGED <<sharkRect, zoneRect>>
     /\ (ev'.op \in DragOps /\ <<sharkRect, zoneRect>>' # <<sharkRect, zoneRect>>)
          => /\ ev'.op = "MouseUp" /\ dragStart # NoPoint
             /\ liveRect.w > MinSide /\ liveRect.h > MinSide
             /\ \/ sharkRect' = liveRect /\ UNCHANGED zoneRect
                \/ zoneRect' = liveRect /\ UNCHANGED sharkRect]_vars

\* C11 witness: a drag in step 1 ended on a rectangle that is exactly 0.02
\* wide and half the surface high, and sharkRect is still null.
C11_Witness ==
  /\ ev.op = "MouseUp" /\ ev.arg # <<>>
  /\ ev.arg[1].w = MinSide /\ ev.arg[1].h > MinSide
  /\ step = 1 /\ sharkRect = NoRect /\ pdPhoto = FreshPhoto

\* C12: when an annotation Submit fails (the response is not a success), the
\* failure leaves step, sharkRect, zoneRect, orientation and the local photo
\* as they were, and an error message is shown.
C12_FailureKeepsDraft ==
  [][(ev'.op = "AnnotateResp" /\ ev'.status # 200) =>
       /\ UNCHANGED <<step, sharkRect, zoneRect, orientation, pdPhoto>>
       /\ pdError' # ""]_vars

\* C13: when an annotation Submit succeeds, the local photo becomes the photo
\* the server returned and step is reset to 1.
C13_SuccessReplacesPhoto ==
  [][(ev'.op = "AnnotateResp" /\ ev'.status = 200) =>
       /\ pdPhoto' \in UpdatedPhotos
       /\ step' = 1]_vars

\* C13 witness: a Submit of a redrawn shark rectangle with orientation
\* face_right succeeded: the photo is the server's (annotated, face_left) and
\* the step is 1.
C13_Witness ==
  /\ ev.op = "AnnotateResp" /\ ev.status = 200
  /\ pdPhoto = AnnotatedPhoto /\ step = 1
  /\ orientation = "face_right" /\ sharkRect \notin {NoRect, SeedShark}

\* rectangle r (in hundredths) in the unit of zoneOverlay
Scaled(r) ==
  [x |-> r.x * Unit, y |-> r.y * Unit, w |-> r.w * Unit, h |-> r.h * Unit]

\* C14: the annotate payload carries the draft rectangles as they are:
\* shark_bbox is sharkRect and zone_bbox is zoneRect (relative to the shark
\* crop); the image-space zone of the step 3 overlay is never what is sent.
C14_PayloadUntransformed ==
  [][(ev'.op = "Submit" /\ ev'.req # <<>>) =>
       /\ ev'.req[1].body.shark_bbox = sharkRect
       /\ ev'.req[1].body.zone_bbox = zoneRect
       /\ zoneOverlay # Scaled(zoneRect)
            => Scaled(ev'.req[1].body.zone_bbox) # zoneOverlay]_vars

\* C14 witness: an annotation was submitted whose shark rectangle is not the
\* whole photo, so that the zone drawn over the photo differs from the zone
\* relative to the crop, and the payload holds the latter.
C14_Witness ==
  /\ ev.op = "Submit" /\ ev.req # <<>>
  /\ sharkRect # [x |-> 0, y |-> 0, w |-> Unit, h |-> Unit]
  /\ zoneOverlay # Scaled(zoneRect)
  /\ ev.req[1].body.zone_bbox = zoneRect

\* C15: after every drag end (pointer up or pointer leaving the surface)
\* dragStart and liveRect are both null, whether or not the rectangle was
\* committed; liveRect is non-null only while a drag is active.
C15_DragEndClears ==
  /\ [](liveRect # NoRect => dragStart # NoPoint)
  /\ [][ev'.op = "MouseUp" => (dragStart' = NoPoint /\ liveRect' = NoRect)]_vars

\* C15 witness: a drag over the crop in step 2 ended on a rectangle too small
\* to be committed; zoneRect is still null and the drag is cleared.
C15_Witness ==
  /\ ev.op = "MouseUp" /\ ev.arg # <<>> /\ ~BigEnough(ev.arg[1])
  /\ step = 2 /\ zoneRect = NoRect
  /\ dragStart = NoPoint /\ liveRect = NoRect

\* C16: Reset in step 1 sets sharkRect and liveRect to null, Reset in step 2
\* sets zoneRect and liveRect to null; Reset leaves step, the other step's
\* rectangle and orientation unchanged.
C16_ResetClearsOwnRect ==
  [][/\ ev'.op = "Reset1" =>
          /\ step = 1 /\ sharkRect' = NoRect /\ liveRect' = NoRect
          /\ UNCHANGED <<step, zoneRect, orientation>>
     /\ ev'.op = "Reset2" =>
          /\ step = 2 /\ zoneRect' = NoRect /\ liveRect' = NoRect
          /\ UNCHANGED <<step, sharkRect, orientation>>]_vars

\* C16 witness: Reset was clicked in step 2 during a drag, on a draft that has
\* a shark rectangle and an orientation: zoneRect and liveRect are null, the
\* rest is still there.
C16_Witness ==
  /\ ev.op = "Reset2" /\ step = 2
  /\ zoneRect = NoRect /\ liveRect = NoRect /\ dragStart # NoPoint
  /\ sharkRect # NoRect /\ orientation # Null

\* C17: the annotation step is always 1, 2 or 3; Back moves step n to n - 1
\* and only for n > 1; the step moves forward only from 1 to 2 and from 2 to
\* 3; Back leaves sharkRect, zoneRect and orientation unchanged.
C17_StepMachine ==
  /\ [](step \in {1, 2, 3})
  /\ [][/\ ev'.op = "Back" =>
             /\ step > 1 /\ step' = step - 1
             /\ UNCHANGED <<sharkRect, zoneRect, orientation>>
        /\ step' > step =>
             /\ step' = step + 1 /\ step \in {1, 2}
             /\ ev'.op = (IF step = 1 THEN "Next1" ELSE "Next2")]_vars

\* C17 witness: Back was clicked in step 3 of a complete draft: the step is 2
\* and both rectangles and the orientation chosen in step 3 are still there.
C17_Witness ==
  /\ ev.op = "Back" /\ step = 2
  /\ sharkRect # NoRect /\ zoneRect # NoRect /\ orientation = "face_right"

\* C18: when a photo is opened for annotation the draft starts at step 1 with
\* sharkRect, zoneRect and orientation equal to the photo's shark_bbox,
\* zone_bbox and orientation where the photo has them, and null where it has
\* not.
C18_DraftSeededFromPhoto ==
  [][ev'.op = "PDLoadOk" =>
       /\ step' = 1
       /\ sharkRect' = (IF pdPhoto'.shark_bbox # NoRect
                          THEN pdPhoto'.shark_bbox ELSE NoRect)
       /\ zoneRect' = (IF pdPhoto'.zone_bbox # NoRect
                         THEN pdPhoto'.zone_bbox ELSE NoRect)
       /\ orientation' = (IF pdPhoto'.orientation # Null
                            THEN pdPhoto'.orientation ELSE Null)]_vars

\* C18 witness: a photo pre-filled by the detector was opened: the draft has
\* its two rectangles and, the photo having no orientation, none.
C18_Witness ==
  /\ ev.op = "PDLoadOk" /\ pdPhoto = DetectedPhoto /\ step = 1
  /\ sharkRect = SeedShark /\ zoneRect = SeedZone /\ orientation = Null

\* C19: opening Create-new never fails to open the modal: once the
\* suggestion is requested the modal eventually opens, whether the call
\* succeeds or fails; when it settles the modal is open, the name field is
\* the suggested name on success and empty on failure, and set-as-profile is
\* true.
C19_CreateModalAlwaysOpens ==
  /\ (suggesting > 0) ~> (showNewShark /\ ev.op \in {"SuggestOk", "SuggestFail"})
  /\ [][/\ ev'.op = "SuggestOk" =>
             /\ showNewShark' /\ setAsProfile'
             /\ newSharkName' \in SuggestedNames
        /\ ev'.op = "SuggestFail" =>
             /\ showNewShark' /\ setAsProfile'
             /\ newSharkName' = <<>>]_vars

\* C19 witness: the suggestion failed and the modal is open with an empty
\* name and set-as-profile checked.
C19_Witness ==
  /\ ev.op = "SuggestFail" /\ showNewShark /\ newSharkName = <<>>
  /\ setAsProfile /\ suggesting = 0 /\ photo # NoPhoto

\* C20: while items is empty no validate request is issued by any path (the
\* action buttons, or a modal still open after the last photo was removed),
\* and once loaded, an empty queue stays empty.
C20_EmptyQueueSendsNothing ==
  [][queue = <<>> =>
       /\ ev'.req = <<>>
       /\ inflight' = <<>> \/ Len(inflight') < Len(inflight)
       /\ ~loading => queue' = <<>>]_vars

\* C20 witness: Create was clicked in the create modal, with a valid name,
\* over an empty queue: the handler ran (the modal closed) and sent nothing.
C20_Witness ==
  /\ ev.op = "Create" /\ ev.req = <<>> /\ queue = <<>> /\ ~loading
  /\ ~showNewShark /\ Trim(newSharkName) # <<>>
  /\ ~submitting /\ inflight = <<>>

\* C21: on load success items is the server's ordered list and the cursor is
\* 0; on load failure (one of the fetches rejects) items is still empty, the
\* cursor is still 0, an error message is set and loading is over.
C21_LoadOutcome ==
  [][/\ ev'.op = "LoadOk" =>
          /\ \E n \in 0..MaxQueue : queue' = ServerQueue(n)
          /\ idx' = 0 /\ ~loading'
     /\ ev'.op = "LoadFail" =>
          /\ queue' = <<>> /\ idx' = 0
          /\ error' # "" /\ ~loading']_vars

\* C22: at most one annotate request is in flight per photo screen; while
\* submitting is true no Submit starts a second one, whatever the user did
\* (Back, redraw, forward again) since the first was sent.
C22_OneAnnotateInFlight ==
  /\ [](Len(pdInflight) <= 1)
  /\ [](pdSubmitting <=> pdInflight # <<>>)
  /\ [][pdSubmitting =>
          (ev'.req = <<>> /\ Len(pdInflight') <= Len(pdInflight))]_vars

\* C22 witness: with a request in flight the user went back, drew another
\* zone, came forward again and clicked Submit: nothing was sent.
C22_Witness ==
  /\ ev.op = "Submit" /\ ev.req = <<>> /\ pdSubmitting
  /\ Len(pdInflight) = 1 /\ step = 3 /\ orientation # Null
  /\ zoneRect # NoRect /\ pdInflight[1].zone_bbox # zoneRect

\* an editor is looking at the photo in step 1 or at the shark crop in step 2
OnDrawSurface ==
  /\ ~pdLoading /\ pdPhoto # NoPhotoRec /\ canEdit
  /\ \/ step = 1 /\ pdPhoto.url # NoUrl
     \/ step = 2 /\ sharkRect # NoRect

\* C23: a pending annotate request never blocks drawing: in steps 1 and 2
\* drag start, drag move and drag end are enabled while the request is in
\* flight, and they update liveRect and commit the rectangle as they do
\* otherwise.
C23_DragNotBlocked ==
  /\ []((OnDrawSurface /\ pdSubmitting) =>
          /\ \A e \in Pointer : ENABLED handleMouseDown(e)
          /\ \A e \in Pointer : ENABLED handleMouseMove(e)
          /\ ENABLED handleMouseUp)
  /\ [][pdSubmitting =>
          /\ ev'.op = "MouseDown" =>
               /\ dragStart' # NoPoint
               /\ liveRect' = [x |-> dragStart'.x, y |-> dragStart'.y,
                               w |-> 0, h |-> 0]
          /\ (ev'.op = "MouseMove" /\ dragStart # NoPoint) =>
               \E e \in Pointer :
                 liveRect' = normaliseRect(dragStart.x, dragStart.y,
                                           clamp(e.x), clamp(e.y))
          /\ (ev'.op = "MouseUp" /\ ev'.arg # <<>>) =>
               /\ liveRect' = NoRect /\ dragStart' = NoPoint
               /\ (liveRect.w > MinSide /\ liveRect.h > MinSide) =>
                    /\ step = 1 => sharkRect' = liveRect
                    /\ step = 2 => zoneRect' = liveRect]_vars

\* C23 witness: with an annotate request in flight the user went back to step
\* 2 and drew a zone, which was committed.
C23_Witness ==
  /\ ev.op = "MouseUp" /\ ev.arg # <<>> /\ BigEnough(ev.arg[1])
  /\ pdSubmitting /\ pdInflight # <<>> /\ step = 2 /\ zoneRect = ev.arg[1]

\* a coordinate in [0, 1]
InUnit(v) == v >= 0 /\ v <= Unit

\* C24: for drag endpoints (ax, ay) and (bx, by) in [0,1]^2 normaliseRect
\* returns x = min(ax, bx), y = min(ay, by), w = |bx - ax|, h = |by - ay|,
\* all four in [0,1], and the same rectangle when the endpoints are swapped.
C24_NormaliseRect ==
  (ev.op = "MouseMove" /\ ev.arg # <<>>) =>
    LET a == dragStart
        b == ev.arg[1]
        r == liveRect
    IN /\ InUnit(a.x) /\ InUnit(a.y) /\ InUnit(b.x) /\ InUnit(b.y)
       /\ r.x = (IF a.x <= b.x THEN a.x ELSE b.x)
       /\ r.y = (IF a.y <= b.y THEN a.y ELSE b.y)
       /\ r.w = (IF a.x <= b.x THEN b.x - a.x ELSE a.x - b.x)
       /\ r.h = (IF a.y <= b.y THEN b.y - a.y ELSE a.y - b.y)
       /\ InUnit(r.x) /\ InUnit(r.y) /\ InUnit(r.w) /\ InUnit(r.h)
       /\ r = normaliseRect(b.x, b.y, a.x, a.y)

\* C24 witness: a drag from the lower right to the upper left, across the
\* whole surface.
C24_Witness ==
  /\ ev.op = "MouseMove" /\ ev.arg # <<>>
  /\ dragStart = [x |-> Unit, y |-> Unit] /\ ev.arg[1] = [x |-> 0, y |-> 0]
  /\ liveRect = [x |-> 0, y |-> 0, w |-> Unit, h |-> Unit]

\* C25: for a shark rectangle S and a zone rectangle Z with components in
\* [0,1] the zone drawn over the photo (x = S.x + Z.x * S.w, y = S.y + Z.y *
\* S.h, w = Z.w * S.w, h = Z.h * S.h) has its x in [S.x, S.x + S.w] and its y
\* in [S.y, S.y + S.h]; S = {0.1, 0.1, 0.4, 0.4} and Z = {0, 0, 0.5, 0.5} give
\* {0.1, 0.1, 0.2, 0.2}.
C25_OverlayInsideShark ==
  (step = 3 /\ sharkRect # NoRect /\ zoneRect # NoRect) =>
    LET S == sharkRect
        Z == zoneRect
        O == zoneOverlay
    IN /\ (\A f \in {"x", "y", "w", "h"} : InUnit(S[f]) /\ InUnit(Z[f])) =>
            /\ O.x >= S.x * Unit /\ O.x <= (S.x + S.w) * Unit
            /\ O.y >= S.y * Unit /\ O.y <= (S.y + S.h) * Unit
       /\ (/\ S = [x |-> 10, y |-> 10, w |-> 40, h |-> 40]
           /\ Z = [x |-> 0, y |-> 0, w |-> 50, h |-> 50]) =>
            O = [x |-> 10 * Unit, y |-> 10 * Unit,
                 w |-> 20 * Unit, h |-> 20 * Unit]

\* C25 witness: step 3 shows a zone that starts in the middle of a shark
\* rectangle which itself starts at 0.1, 0.1.
C25_Witness ==
  /\ step = 3
  /\ sharkRect = [x |-> 10, y |-> 10, w |-> 40, h |-> 40]
  /\ zoneRect = [x |-> 50, y |-> 50, w |-> 50, h |-> 50]
  /\ zoneOverlay = [x |-> 30 * Unit, y |-> 30 * Unit,
                    w |-> 20 * Unit, h |-> 20 * Unit]

\* C26: every started request clears its in-flight flag once the collaborator
\* has answered, on success and on failure alike: loading after the load,
\* the queue's submitting after a resolution action, the photo screen's
\* submitting after Submit; after a rejected action the flag is down and the
\* photo is still there, so the action can be repeated.
C26_FlagsCleared ==
  /\ loading ~> ~loading
  /\ submitting ~> ~submitting
  /\ pdSubmitting ~> ~pdSubmitting
  /\ [][/\ ev'.op \in {"LoadOk", "LoadFail"} => ~loading'
        /\ ev'.op = "ValidateResp" => ~submitting'
        /\ ev'.op = "AnnotateResp" => ~pdSubmitting'
        /\ (ev'.op = "ValidateResp" /\ ev'.status = 400) =>
             /\ queue' = queue /\ queue # <<>>
             /\ idx' = idx /\ idx >= 0 /\ idx < Len(queue)
        /\ (ev'.op = "AnnotateResp" /\ ev'.status = 400) =>
             /\ pdPhoto' = pdPhoto /\ pdPhoto # NoPhotoRec
             /\ UNCHANGED <<step, sharkRect, zoneRect, orientation>>]_vars

\* C26 witness: a Confirm and an annotation Submit were both rejected, both
\* flags are down again, the photo and the draft are still there.
C26_Witness ==
  /\ ev.op = "AnnotateResp" /\ ev.status = 400 /\ ~pdSubmitting
  /\ step = 3 /\ orientation # Null /\ pdPhoto # NoPhotoRec
  /\ ~loading /\ ~submitting /\ error = "Shark not found"
  /\ queue # <<>> /\ selectedCandidate # Null

\* the operations C27 lists: the local clicks (candidate, lightbox, modals,
\* tabs), the asking for a name, and the rechecks of the unlinked tab
QuietOps ==
  {"ui", "openNewShark", "SuggestOk", "SuggestFail",
   "Recheck", "RecheckResp", "RecheckAll", "RecheckAllResp"}

\* a step of one of the listed operations leaves items and cursor alone
ListedOpsLeaveItems == ev'.op \in QuietOps => queue' = queue /\ idx' = idx

\* C27 (its frame part alone): selecting a candidate, opening or closing a
\* modal or the enlarged image, switching tabs, recheck one and recheck all
\* leave items and cursor unchanged, and items change only in the load's
\* continuation or in the continuation of a resolution request.
C27_ListedOpsFrame ==
  [][/\ ListedOpsLeaveItems
     /\ queue' # queue => ev'.op \in {"LoadOk", "ValidateResp"}]_vars

\* C27: items are changed only by the initial load and by a successful
\* resolution action (a validate request the server answered with success);
\* selecting a candidate, opening or closing a modal or the enlarged image,
\* switching tabs, recheck one and recheck all leave items and cursor
\* unchanged.
C27_ItemsChangedOnlyByLoadAndSuccess ==
  [][/\ ListedOpsLeaveItems
     /\ queue' # queue =>
          \/ ev'.op = "LoadOk"
          \/ ev'.op = "ValidateResp" /\ RespOk([status |-> ev'.status])]_vars

\* a recheck-all settled with one failure, over a loaded queue whose cursor
\* was moved
C27_FrameSeen ==
  /\ ev.op = "RecheckAllResp" /\ ev.arg = <<1>>
  /\ Len(unlinked) = 1 /\ Len(queue) > 1 /\ idx > 0

\* C28: on the dive-session screen the poll timer is installed exactly while
\* some video of the screen's list is uploaded or processing (and its
\* callback holds that list); it is installed by the step in which such a
\* video appears; it is gone after a poll that reports no such video; and a
\* poll that reports as done a video the screen has never held as done makes
\* the getDiveSession call.
C28_TimerWhileActive ==
  /\ [](timer = PollEffect(videos) /\ (timer # <<>> <=> Active(videos)))
  /\ [][/\ ~Active(videos) /\ Active(videos') => timer' # <<>>
        /\ ev'.op = "PollOk" /\ ~Active(ev'.arg[1]) => timer' = <<>>
        /\ ev'.op = "PollOk" /\ DoneIds(ev'.arg[1]) \ everDone # {} =>
             /\ ev'.req = <<[get |-> "session"]>>
             /\ BagCardinality(fetches') = BagCardinality(fetches) + 1
             /\ BagIn("poll", fetches')]_vars

\* C28 witness: a poll has reported the older video done for the first time
\* while the uploaded one waits: the session is being refetched and the timer
\* is still installed.
C28_Witness ==
  /\ ev.op = "PollOk" /\ ev.req = <<[get |-> "session"]>>
  /\ videos = <<Video(NewVideo, "uploaded"), Video(OldVideo, "done")>>
  /\ timer = <<videos>> /\ BagIn("poll", fetches)

\* C29: every Confirm request sends a shark_id that is one of the
\* top5_candidates of the photo whose id the same request names.
C29_ConfirmSendsCandidate ==
  [][(ev'.op = "Confirm" /\ ev'.req # <<>>) =>
       ev'.req[1].body.shark_id \in Range(Top5(ev'.req[1].id))]_vars

\* C30: a Create-new or Select-other request names the photo that was under
\* the cursor when the user asked for the modal (under SpecC the user asks
\* only on AskedPhoto), whatever the name suggestion, the arrow keys and
\* other resolutions did in between.
C30_ModalRequestTargetsAskedPhoto ==
  [][(ev'.op \in {"Create", "Select"} /\ ev'.req # <<>>) =>
       ev'.req[1].id = AskedPhoto]_vars

\* C31: the photo a successful validate response removes from items is the
\* photo whose id its request sent, wherever the cursor is by then; and a
\* photo leaves items only in the continuation of a validate request that
\* named it.
C31_RemovedIsTheOneSent ==
  [][/\ (ev'.op = "ValidateResp" /\ ev'.status = 200) =>
          \E i \in 1..Len(inflight) :
            /\ inflight' = [j \in 1..(Len(inflight) - 1) |->
                              IF j < i THEN inflight[j] ELSE inflight[j + 1]]
            /\ Range(queue) \ Range(queue') = {inflight[i].photo}
     /\ \A p \in Range(queue) \ Range(queue') :
          /\ ev'.op = "ValidateResp"
          /\ \E i \in 1..Len(inflight) : inflight[i].photo = p
          /\ Range(queue') = Range(queue) \ {p}]_vars

\* C31 witness: a resolution was sent for the first of three photos, the
\* cursor was moved off it while the request was in flight, and the success
\* removed the first photo: items [2,3], cursor 1.
C31_Witness ==
  /\ ev.op = "ValidateResp" /\ ev.status = 200
  /\ queue = <<2, 3>> /\ idx = 1 /\ inflight = <<>>

\* C32: at most one of the new-identity modal, the picker modal and the
\* enlarged image is open at any time in the validation queue.
C32_AtMostOneOverlay ==
  /\ ~(showNewShark /\ showPicker)
  /\ ~(showNewShark /\ lightboxUrl # NoUrl)
  /\ ~(showPicker /\ lightboxUrl # NoUrl)

\* C33: the zone_bbox of an annotate request was drawn against the shark_bbox
\* of the same request (under SpecB every zone is drawn against SeedShark, so
\* every request carries SeedShark as its shark_bbox).
C33_ZoneDrawnAgainstSentShark ==
  [][(ev'.op = "Submit" /\ ev'.req # <<>>) =>
       ev'.req[1].body.shark_bbox = SeedShark]_vars

\* C34: in every reachable state of the annotation screen, step >= 2 implies
\* that sharkRect is set and step = 3 implies that zoneRect is set; hence the
\* annotate request just sent, and every request still awaiting its response,
\* carries a shark_bbox, a zone_bbox and an orientation that are not null.
BodyComplete(b) ==
  b.shark_bbox # NoRect /\ b.zone_bbox # NoRect /\ b.orientation # Null

C34_StepsHaveTheirRects ==
  /\ step >= 2 => sharkRect # NoRect
  /\ step = 3 => zoneRect # NoRect
  /\ (ev.op = "Submit" /\ ev.req # <<>>) => BodyComplete(ev.req[1].body)
  /\ \A i \in 1..Len(pdInflight) : BodyComplete(pdInflight[i])

\* a request has just been sent from step 3 of a photo that came without
\* rectangles: both rectangles were drawn by hand
C34_Witness ==
  /\ ev.op = "Submit" /\ ev.req # <<>>
  /\ step = 3 /\ pdPhoto = FreshPhoto
  /\ sharkRect # NoRect /\ zoneRect # NoRect

\* C35: a rectangle is committed only to the slot of the step in which its
\* drag started, also when the step changes between drag start and drag end
\* (under SpecD every drag starts in step 2, so no drag end writes sharkRect).
C35_DragWritesItsOwnSlot ==
  [][ev'.op = "MouseUp" => sharkRect' = sharkRect]_vars

\* C36: every rectangle committed by a drag lies inside the unit square
\* (x >= 0, y >= 0, x + w <= 1, y + h <= 1), so the image-space rectangle of
\* a zone just drawn lies entirely inside the shark rectangle.
C36_CommittedInsideUnitSquare ==
  [][(ev'.op = "MouseUp" /\ ev'.arg # <<>> /\ BigEnough(ev'.arg[1])) =>
       LET r == ev'.arg[1]
           S == sharkRect'
           O == zoneOverlay'
       IN /\ (step = 1 /\ sharkRect' = r) \/ (step = 2 /\ zoneRect' = r)
          /\ r.x >= 0 /\ r.y >= 0 /\ r.x + r.w <= Unit /\ r.y + r.h <= Unit
          /\ step = 2 =>
               /\ O.x >= S.x * Unit /\ O.x + O.w <= (S.x + S.w) * Unit
               /\ O.y >= S.y * Unit /\ O.y + O.h <= (S.y + S.h) * Unit]_vars

\* C36 witness: a drag on the crop from beyond its upper left corner to beyond
\* its lower right corner has committed the whole crop as the zone.
C36_Witness ==
  /\ ev.op = "MouseUp" /\ step = 2
  /\ zoneRect = [x |-> 0, y |-> 0, w |-> Unit, h |-> Unit]
  /\ ev.arg = <<zoneRect>>
  /\ sharkRect = [x |-> 2, y |-> 0, w |-> 48, h |-> 50]

\* C37: on the unlinked tab no photo has two rechecks in flight at once: a
\* recheck of a photo is not started again, by its own button or by the
\* recheck-all button, while a recheck of the same photo awaits its answer.
InFlightRechecks(p) ==
  Cardinality({i \in 1..Len(rechecks) : rechecks[i] = p}) +
  Cardinality({k \in 1..Len(recheckAlls) : p \in Range(recheckAlls[k])})

C37_OneRecheckPerPhoto ==
  \A p \in Range(ServerUnlinked) : InFlightRechecks(p) <= 1

\* C38: with the viewer role the annotation screen is read-only: once the load
\* has settled no event changes step, sharkRect, zoneRect or orientation, and
\* no annotate request is sent or in flight.
C38_ViewerReadOnly ==
  [][(~canEdit /\ ~pdLoading) =>
       /\ UNCHANGED <<step, sharkRect, zoneRect, orientation>>
       /\ ev'.op # "Submit"
       /\ pdInflight = <<>> /\ pdInflight' = <<>>]_vars

\* C38 witness: a viewer looks at a photo the detector pre-filled: the load
\* has seeded both rectangles, so a Next button would be enabled if it were
\* rendered.
C38_Witness ==
  /\ ~canEdit /\ ev.op = "PDLoadOk" /\ pdPhoto = DetectedPhoto
  /\ step = 1 /\ sharkRect = SeedShark /\ zoneRect = SeedZone
  /\ ~Next1Disabled /\ ~StepButtonsShown

\* C39: in the validation queue an error message does not outlive the
\* failure that set it: when a resolution action succeeds, the error message
\* is cleared.
C39_SuccessClearsError ==
  [][(ev'.op = "ValidateResp" /\ ev'.status = 200) => error' = ""]_vars

====
